---- MODULE Spec2Model ----
(***************************************************************************)
(* Request-orchestration pipeline of the ZombieCoder workstation:          *)
(*   - ModelRouter (server/routing/model_router.py): fallback order,       *)
(*     health cache with a 5-minute TTL, concurrent get_completion calls   *)
(*     interleaving at their awaits (health probe, provider completion);   *)
(*   - AgentBase (server/core/agent_base.py): bounded session history and  *)
(*     concurrent process_request calls.                                   *)
(* Scheduling is asyncio: one coroutine runs until it awaits I/O, so every *)
(* action below is the code between two suspension points.                 *)
(***************************************************************************)
EXTENDS Integers, Sequences, FiniteSets, TLC

VARIABLES
    config,             \* ModelRouter.config: providers, primary, fallbacks
    env,                \* the upstream services: which answer probes and completions
    model_configs,      \* ModelRouter.model_configs, keys in insertion order
    health_cache,       \* ModelRouter.health_cache: provider -> bool
    last_health_check,  \* ModelRouter.last_health_check: provider -> time
    now,                \* time.time()
    calls,              \* get_completion coroutines
    status,             \* a get_provider_status coroutine
    init_pc,            \* position of the initialize coroutine
    is_initialized,     \* AgentBase.is_initialized
    session_context,    \* AgentBase.session_context: session id -> context
    requests,           \* process_request coroutines
    appended,           \* history: every turn appended to a session, in order
    turn_clock,         \* time.time() as read for the turns' timestamps
    tool_config,        \* ToolOrchestrator.config
    tools,              \* ToolOrchestrator.tools: the names of the registered tools
    enabled_tools,      \* ToolOrchestrator.enabled_tools
    session_tool_counts,\* ToolOrchestrator.session_tool_counts: key -> tool -> count
    tool_op,            \* the orchestrator method being applied, its inputs and result
    executed,           \* history: the tool calls whose execute was invoked, in order
    split,              \* the _split_text application: its input and its result
    rag_config,         \* RAGPipeline.config
    embedding_provider, \* RAGPipeline.embedding_provider: None, "simple" or "openai"
    vector_store,       \* VectorStore.documents; no store before initialize set the provider
    rag_cache,          \* RAGPipeline.cache: cache key -> context
    rag_init,           \* position of RAGPipeline.initialize
    rag_add,            \* the add_document (or _load_sample_documents) coroutine
    rag_get,            \* the retrieve_context coroutine
    files,              \* the file system: resolved path -> content
    file_op,            \* the file tool being executed, its input and its result
    agents,             \* AgentManager.agents: agent id -> instance
    cleanup_wake,       \* the time the cleanup task's sleep ends, None before initialize
    manager_op,         \* the AgentManager method being applied and its result
    last_request        \* history: session id -> time of its last request

routerVars == <<config, env, model_configs, health_cache, last_health_check, now, calls,
                status, init_pc>>

sessionVars == <<is_initialized, session_context, requests, appended, turn_clock>>

toolVars == <<tool_config, tools, enabled_tools, session_tool_counts, tool_op, executed>>

ragVars == <<split, rag_config, embedding_provider, vector_store, rag_cache, rag_init,
             rag_add, rag_get>>

fileVars == <<files, file_op>>

managerVars == <<agents, cleanup_wake, manager_op, last_request>>

laterVars == <<ragVars, fileVars, managerVars>>

vars == <<routerVars, sessionVars, toolVars, laterVars>>

(***************************************************************************)
(* Bounds of the model.                                                    *)
(***************************************************************************)
TickStep == 100
MaxTicks == 3

\* one slot for get_completion coroutines, reused call after call; the
\* get_provider_status and initialize coroutines run beside it
CallIds == {"c1"}

None == "None"

(***************************************************************************)
(* Program constants.                                                      *)
(***************************************************************************)
HEALTH_TTL == 300

APOLOGY == "I'm sorry, I'm experiencing technical difficulties. Please try again later."

\* ModelRouter.providers: the adapters registered by __init__, in dict order
ProviderOrder == <<"openai", "anthropic", "local">>

providers == {ProviderOrder[n] : n \in 1..Len(ProviderOrder)}

\* config_key = f"{provider_name}:{model_name}"
ModelKey(p, m) == <<p, m>>

KeyProvider(k) == k[1]

KeyModel(k) == k[2]

(***************************************************************************)
(* Configurations the router is constructed with.  "gemini" is a provider  *)
(* the configuration names although __init__ registers no adapter for it.  *)
(***************************************************************************)
ConfigDefault ==
    [providers |-> [p \in {"openai", "anthropic"} |->
                       IF p = "openai" THEN <<"gpt-4", "gpt-3.5">> ELSE <<"claude">>],
     order |-> <<"openai", "anthropic">>,
     primary |-> "openai",
     fallbacks |-> <<"anthropic", "local">>]

ConfigNoAdapter ==
    [providers |-> [p \in {"openai", "gemini", "anthropic"} |->
                       IF p = "openai" THEN <<"gpt-4">>
                       ELSE IF p = "gemini" THEN <<"gemini-pro">> ELSE <<"claude">>],
     order |-> <<"openai", "gemini", "anthropic">>,
     primary |-> "openai",
     fallbacks |-> <<"gemini", "anthropic", "openai">>]

Configs == {ConfigDefault, ConfigNoAdapter}

\* preferred_models hints a caller may pass (keys need not be configured)
PreferredChoices ==
    { <<>>,
      <<ModelKey("openai", "gpt-3.5"), ModelKey("anthropic", "claude"),
        ModelKey("openai", "gpt-3.5")>>,
      <<ModelKey("mistral", "tiny"), ModelKey("anthropic", "claude")>> }

\* The upstream services.  Unconstrained: any probe and any completion may
\* succeed or fail.  Constrained: the providers in healthy answer their
\* health check, the models in completes answer a completion.
FreeEnv == [constrained |-> FALSE, healthy |-> {}, completes |-> {}]

ProbeAllowed(p, is_healthy) ==
    env.constrained => (is_healthy = (p \in env.healthy))

AttemptAllowed(k, out) ==
    env.constrained => ((out = "ok") = (k \in env.completes))

(***************************************************************************)
(* Try-order of get_completion (lines 430-459).                            *)
(***************************************************************************)
\* [f"{p}:{model}" for model in config.get('providers',{}).get(p,{}).get('models',[])]
ProviderModels(cfg, p) ==
    IF p \in DOMAIN cfg.providers
    THEN [n \in 1..Len(cfg.providers[p]) |-> ModelKey(p, cfg.providers[p][n])]
    ELSE <<>>

RECURSIVE FallbackModels(_, _)
FallbackModels(cfg, fbs) ==
    IF fbs = <<>> THEN <<>>
    ELSE ProviderModels(cfg, Head(fbs)) \o FallbackModels(cfg, Tail(fbs))

ModelsToTry(cfg, preferred) ==
    preferred \o ProviderModels(cfg, cfg.primary) \o FallbackModels(cfg, cfg.fallbacks)

\* bug: seen.add(model) forgotten, so nothing is ever a duplicate
DedupNoAdd(models, seen, unique) == unique \o models

RECURSIVE Dedup(_, _, _)
Dedup(models, seen, unique) ==
    IF models = <<>> THEN unique
    ELSE IF Head(models) \in seen
         THEN Dedup(Tail(models), seen, unique)
         ELSE Dedup(Tail(models), seen \cup {Head(models)}, Append(unique, Head(models)))

UniqueModels(cfg, preferred) == Dedup(ModelsToTry(cfg, preferred), {}, <<>>)

(***************************************************************************)
(* _load_model_configurations (lines 375-404): one entry per configured    *)
(* provider and model, in the order of the configuration.                  *)
(***************************************************************************)
RECURSIVE LoadFrom(_, _)
LoadFrom(cfg, ps) ==
    IF ps = <<>> THEN <<>>
    ELSE ProviderModels(cfg, Head(ps)) \o LoadFrom(cfg, Tail(ps))

LoadModelConfigurations(cfg) == LoadFrom(cfg, cfg.order)

InModelConfigs(k, mc) == \E n \in 1..Len(mc) : mc[n] = k

\* the loop "for config in self.model_configs.values(): if config.provider == name"
HasSampleConfig(p, mc) == \E n \in 1..Len(mc) : KeyProvider(mc[n]) = p

(***************************************************************************)
(* _is_provider_healthy (lines 513-538), up to its await.                  *)
(***************************************************************************)
CacheFresh(p, hc, lhc, t) ==
    /\ p \in DOMAIN hc
    /\ p \in DOMAIN lhc
    /\ t - lhc[p] < HEALTH_TTL

\* bug: a cached entry counts as healthy whatever its value
HealthLookupIgnoresValue(p, hc, lhc, mc, t) ==
    IF CacheFresh(p, hc, lhc, t) THEN "pos"
    ELSE IF ~HasSampleConfig(p, mc) THEN "noconfig"
    ELSE IF p \notin providers THEN "keyerror"
    ELSE "probe"

\* "pos"/"neg": the cached answer is returned; "noconfig": returns False;
\* "keyerror": self.providers[provider_name] raises; "probe": awaits health_check
HealthLookup(p, hc, lhc, mc, t) ==
    IF CacheFresh(p, hc, lhc, t) THEN (IF hc[p] THEN "pos" ELSE "neg")
    ELSE IF ~HasSampleConfig(p, mc) THEN "noconfig"
    ELSE IF p \notin providers THEN "keyerror"
    ELSE "probe"

Store(f, p, v) == [q \in DOMAIN f \cup {p} |-> IF q = p THEN v ELSE f[q]]

(***************************************************************************)
(* RAGPipeline._split_text (server/rag/rag_pipeline.py lines 379-404).  A  *)
(* text is the sequence of its characters; positions are counted from 0   *)
(* as in the code, so text[k] of the code is text[k + 1] here.             *)
(***************************************************************************)
\* the characters of the string '.!?\\n ' of line 395
BoundaryChars == {".", "!", "?", "\\", "n", " "}

\* the characters the texts of the model are made of
TextChars == {"a", " "}

MaxTextLen == 5

Texts == UNION {[1..n -> TextChars] : n \in 0..MaxTextLen}

\* the configured (chunk_size, chunk_overlap): the overlap is smaller than
\* the chunk size, as in the default (1000, 200)
SplitConfigs ==
    { [chunk_size |-> 3, chunk_overlap |-> 0],
      [chunk_size |-> 3, chunk_overlap |-> 1],
      [chunk_size |-> 4, chunk_overlap |-> 2] }

\* text[start:end]
Slice(text, start, end) ==
    SubSeq(text, start + 1, IF end > Len(text) THEN Len(text) ELSE end)

\* lines 395-396: end moves back to a boundary character, or to start
RECURSIVE WalkBack(_, _, _)
WalkBack(text, start, end) ==
    IF end > start /\ text[end + 1] \notin BoundaryChars
    THEN WalkBack(text, start, end - 1)
    ELSE end

\* The loop of lines 387-402 from start on.  spans records where each chunk
\* was cut.  The loop is a function of start alone, so once it has run more
\* times than the text has characters it has come back to a start it had
\* before and never ends: returned is then FALSE.
RECURSIVE SplitLoop(_, _, _, _, _, _)
SplitLoop(text, chunk_size, chunk_overlap, start, chunks, spans) ==
    IF ~(start < Len(text))
    THEN [returned |-> TRUE, chunks |-> chunks, spans |-> spans]
    ELSE IF start + chunk_size >= Len(text)
    THEN [returned |-> TRUE,
          chunks |-> Append(chunks, Slice(text, start, Len(text))),
          spans |-> Append(spans, <<start, Len(text)>>)]
    ELSE IF Len(chunks) > Len(text)
    THEN [returned |-> FALSE, chunks |-> chunks, spans |-> spans]
    ELSE LET back == WalkBack(text, start, start + chunk_size)
             end == IF back = start THEN start + chunk_size ELSE back
         IN  SplitLoop(text, chunk_size, chunk_overlap,
                       IF end > chunk_overlap THEN end - chunk_overlap ELSE end,
                       Append(chunks, Slice(text, start, end)),
                       Append(spans, <<start, end>>))

\* bug: no early return for a text that fits one chunk
SplitTextLoopOnly(text, chunk_size, chunk_overlap) ==
    SplitLoop(text, chunk_size, chunk_overlap, 0, <<>>, <<>>)

\* _split_text(text)
SplitText(text, chunk_size, chunk_overlap) ==
    IF Len(text) <= chunk_size
    THEN [returned |-> TRUE, chunks |-> <<text>>, spans |-> <<<<0, Len(text)>>>>]
    ELSE SplitLoop(text, chunk_size, chunk_overlap, 0, <<>>, <<>>)

(***************************************************************************)
(* RAGPipeline: the vector store, the retrieval cache, add_document and    *)
(* retrieve_context (server/rag/rag_pipeline.py).  The contents, the       *)
(* sources and the contexts are texts.                                     *)
(***************************************************************************)
\* The embedding of a text.  SimpleEmbeddingProvider (lines 98-116) makes it
\* from the md5 digest of the text: a fixed function from texts to vectors
\* of one size with no negative component.  The model's fixed function
\* counts the spaces of the text and its other characters.
RECURSIVE CountChar(_, _)
CountChar(text, c) ==
    IF text = <<>> THEN 0
    ELSE (IF Head(text) = c THEN 1 ELSE 0) + CountChar(Tail(text), c)

EmbeddingOf(text) == <<Len(text) - CountChar(text, " "), CountChar(text, " ")>>

\* get_embedding: the simple provider never fails; the OpenAI provider
\* returns [] when the request fails (lines 81-88)
GetEmbedding(provider, text, outcome) ==
    IF provider = "openai" /\ outcome = "fail" THEN <<>> ELSE EmbeddingOf(text)

EmbedOutcomes == {"ok", "fail"}

RECURSIVE DotProduct(_, _)
DotProduct(vec1, vec2) ==
    IF vec1 = <<>> THEN 0
    ELSE Head(vec1) * Head(vec2) + DotProduct(Tail(vec1), Tail(vec2))

\* A similarity score: the pair <<d, m>> stands for the number d / sqrt(m),
\* with d >= 0 and m > 0.
ZeroScore == <<0, 1>>

\* _cosine_similarity (lines 151-163)
CosineSimilarity(vec1, vec2) ==
    IF Len(vec1) # Len(vec2) THEN ZeroScore
    ELSE IF DotProduct(vec1, vec1) = 0 \/ DotProduct(vec2, vec2) = 0 THEN ZeroScore
    ELSE <<DotProduct(vec1, vec2), DotProduct(vec1, vec1) * DotProduct(vec2, vec2)>>

\* score1 >= score2
ScoreAtLeast(score1, score2) ==
    score1[1] * score1[1] * score2[2] >= score2[1] * score2[1] * score1[2]

\* the default similarity_threshold 0.7 (line 282), as 7 / sqrt(100)
DefaultThreshold == <<7, 100>>

\* RAGPipeline.config: small sizes in the place of the defaults 1000, 200,
\* 4000 and 5; 'openai' stands for the OpenAI provider with its key set
RagConfig(embedding_model) ==
    [embedding_model |-> embedding_model, chunk_size |-> 3, chunk_overlap |-> 1,
     max_context_length |-> 12, similarity_threshold |-> DefaultThreshold,
     max_retrieved_docs |-> 2]

\* with the context length 4 the second chunk of a context does not fit,
\* with the context length 2 a chunk of three characters does not fit
RagConfigs ==
    {RagConfig(m) : m \in {"simple", "openai"}}
    \cup {[RagConfig(m) EXCEPT !.max_context_length = 4] : m \in {"simple", "openai"}}
    \cup {[RagConfig("simple") EXCEPT !.max_context_length = 2]}

\* the documents _load_sample_documents loads (lines 331-355): each fits
\* one chunk
SampleDocs == << [content |-> <<" ", "a">>, source |-> <<"s", "0">>] >>

\* the documents add_document is called with
DocChoices ==
    { [content |-> <<"a", "a", "a", "a">>, source |-> <<"d", "1">>],
      [content |-> <<"a", "a">>, source |-> <<"d", "2">>] }

\* the queries retrieve_context is called with
QueryChoices == { <<"a">>, <<" ">>, <<"a", " ">> }

\* how many chunks the store holds before add_document is no longer called
MaxStored == 3

\* DocumentChunk (lines 21-28, 369-374); similarity_score is written by
\* search and read before the next suspension, so it is not kept
MakeChunk(source, i, content, embedding) ==
    [id |-> <<source, i>>, content |-> content, source |-> source, embedding |-> embedding]

\* the stable sort of line 148: chunk goes behind every chunk of sorted
\* whose score is not below its own
RECURSIVE InsertByScore(_, _, _)
InsertByScore(sorted, chunk, query_embedding) ==
    IF sorted = <<>> THEN <<chunk>>
    ELSE IF ScoreAtLeast(CosineSimilarity(query_embedding, Head(sorted).embedding),
                         CosineSimilarity(query_embedding, chunk.embedding))
         THEN <<Head(sorted)>> \o InsertByScore(Tail(sorted), chunk, query_embedding)
         ELSE <<chunk>> \o sorted

RECURSIVE SortByScore(_, _)
SortByScore(docs, query_embedding) ==
    IF docs = <<>> THEN <<>>
    ELSE InsertByScore(SortByScore(SubSeq(docs, 1, Len(docs) - 1), query_embedding),
                       docs[Len(docs)], query_embedding)

\* VectorStore.search (lines 134-149)
Search(documents, query_embedding, top_k) ==
    IF query_embedding = <<>> THEN <<>>
    ELSE LET scored_docs == SortByScore(SelectSeq(documents, LAMBDA doc : doc.embedding # <<>>),
                                        query_embedding)
         IN  SubSeq(scored_docs, 1, IF top_k < Len(scored_docs) THEN top_k ELSE Len(scored_docs))

\* bug: the chunks search returns are not filtered by their score
RelevantDocsUnfiltered(similar_docs, query_embedding, threshold) == similar_docs

\* lines 440-443
RelevantDocs(similar_docs, query_embedding, threshold) ==
    SelectSeq(similar_docs,
              LAMBDA doc : ScoreAtLeast(CosineSimilarity(query_embedding, doc.embedding),
                                        threshold))

\* bug: a chunk that does not fit is passed over and the chunks ranked
\* below it are tried
RECURSIVE ContextDocsSkipping(_, _, _)
ContextDocsSkipping(relevant_docs, context_length, max_context_length) ==
    IF relevant_docs = <<>> THEN <<>>
    ELSE IF context_length + Len(Head(relevant_docs).content) > max_context_length
         THEN ContextDocsSkipping(Tail(relevant_docs), context_length, max_context_length)
    ELSE <<Head(relevant_docs)>>
         \o ContextDocsSkipping(Tail(relevant_docs),
                                context_length + Len(Head(relevant_docs).content),
                                max_context_length)

\* lines 453-458: the chunks that go into the context
RECURSIVE ContextDocs(_, _, _)
ContextDocs(relevant_docs, context_length, max_context_length) ==
    IF relevant_docs = <<>> THEN <<>>
    ELSE IF context_length + Len(Head(relevant_docs).content) > max_context_length THEN <<>>
    ELSE <<Head(relevant_docs)>>
         \o ContextDocs(Tail(relevant_docs), context_length + Len(Head(relevant_docs).content),
                        max_context_length)

\* the two characters the source writes as \\n
Newline == <<"\\", "n">>

\* f"[{source}]\\n{content}" (line 457)
ContextPart(doc) == <<"[">> \o doc.source \o <<"]">> \o Newline \o doc.content

\* "\\n\\n".join(context_parts) (line 460)
RECURSIVE JoinParts(_)
JoinParts(docs) ==
    IF docs = <<>> THEN <<>>
    ELSE IF Len(docs) = 1 THEN ContextPart(docs[1])
    ELSE ContextPart(docs[1]) \o Newline \o Newline \o JoinParts(Tail(docs))

\* Lines 433-466 for a query whose embedding was made: the context, the
\* chunks it is made of, and whether it is put in the cache.
BuildContext(documents, query_embedding, cfg) ==
    LET similar_docs == Search(documents, query_embedding, cfg.max_retrieved_docs)
        relevant_docs == RelevantDocs(similar_docs, query_embedding, cfg.similarity_threshold)
        parts == ContextDocs(relevant_docs, 0, cfg.max_context_length)
    IN  IF query_embedding = <<>> \/ relevant_docs = <<>>
        THEN [context |-> <<>>, parts |-> <<>>, cached |-> FALSE]
        ELSE [context |-> JoinParts(parts), parts |-> parts, cached |-> TRUE]

\* _add_document's loop (lines 364-377) with a provider that does not
\* suspend, from chunk i on
RECURSIVE AddChunks(_, _, _, _)
AddChunks(documents, source, chunks, i) ==
    IF i > Len(chunks) THEN documents
    ELSE AddChunks(Append(documents,
                          MakeChunk(source, i - 1, chunks[i],
                                    GetEmbedding("simple", chunks[i], "ok"))),
                   source, chunks, i + 1)

\* _load_sample_documents with a provider that does not suspend
RECURSIVE LoadSamples(_, _, _)
LoadSamples(documents, n, cfg) ==
    IF n > Len(SampleDocs) THEN documents
    ELSE LoadSamples(AddChunks(documents, SampleDocs[n].source,
                               SplitText(SampleDocs[n].content, cfg.chunk_size,
                                         cfg.chunk_overlap).chunks, 1),
                     n + 1, cfg)

(***************************************************************************)
(* The candidate loop of get_completion (lines 463-473) from candidate j   *)
(* on, run until the coroutine awaits, raises or leaves the loop.          *)
(* skipped collects the providers skipped on a cached negative answer.     *)
(***************************************************************************)
RECURSIVE Scan(_, _, _, _, _, _)
Scan(models, j, skipped, hc, lhc, mc) ==
    IF j > Len(models) THEN [stop |-> "exhausted", i |-> j, skipped |-> skipped]
    ELSE IF ~InModelConfigs(models[j], mc)
    THEN Scan(models, j + 1, skipped, hc, lhc, mc)
    ELSE LET p == KeyProvider(models[j])
             look == HealthLookup(p, hc, lhc, mc, now)
         IN  CASE look = "pos" -> [stop |-> "attempt", i |-> j, skipped |-> skipped]
               [] look = "neg" -> Scan(models, j + 1, skipped \cup {p}, hc, lhc, mc)
               [] look = "noconfig" -> Scan(models, j + 1, skipped, hc, lhc, mc)
               [] look = "keyerror" -> [stop |-> "keyerror", i |-> j, skipped |-> skipped]
               [] look = "probe" -> [stop |-> "probe", i |-> j, skipped |-> skipped]

\* lines 501-511
AllFailedResponse(last_error) ==
    [content |-> APOLOGY, model |-> "none", provider |-> "none", success |-> FALSE,
     error |-> <<"All models failed. Last error: ", last_error>>]

\* the success branch of the adapters (lines 102-109, 191-198, 286-292)
SuccessResponse(k) ==
    [content |-> "completion", model |-> KeyModel(k), provider |-> KeyProvider(k),
     success |-> TRUE, error |-> <<None, None>>]

\* error text of a failed (lines 112-130) or raising attempt against key k
AttemptError(out, k) == <<out, k>>

\* bug: only the first error is kept
LastErrorKeepsFirst(out, k, last_error) ==
    IF last_error = <<None, None>> THEN AttemptError(out, k) ELSE last_error

\* last_error after an attempt against k ended out (lines 495, 499)
LastError(out, k, last_error) == AttemptError(out, k)

\* The coroutine's locals after the loop has run on from candidate j.
Resume(call, j, hc, lhc, mc) ==
    LET r == Scan(call.models, j, call.skipped_neg, hc, lhc, mc)
        c2 == [call EXCEPT !.i = r.i, !.skipped_neg = r.skipped]
    IN  CASE r.stop = "exhausted" ->
                [c2 EXCEPT !.pc = "done", !.response = AllFailedResponse(call.last_error)]
          [] r.stop = "attempt" -> [c2 EXCEPT !.pc = "attempting"]
          [] r.stop = "probe" -> [c2 EXCEPT !.pc = "probing", !.current_time = now]
          [] r.stop = "keyerror" -> [c2 EXCEPT !.pc = "raised"]

NoResponse ==
    [content |-> None, model |-> None, provider |-> None, success |-> FALSE,
     error |-> <<None, None>>]

\* skipped_neg, last_fail and last_ok are history: the providers this call
\* skipped on a cached negative answer, the last attempt of this call that
\* failed, and the candidate whose attempt succeeded (0: none).
IdleCall ==
    [pc |-> "idle", preferred |-> <<>>, models |-> <<>>, i |-> 0, current_time |-> 0,
     last_error |-> <<None, None>>, response |-> NoResponse,
     skipped_neg |-> {}, last_fail |-> <<None, 0>>, last_ok |-> 0]

IdleStatus == [pc |-> "idle", n |-> 0, current_time |-> 0]

(***************************************************************************)
(* AgentBase (server/core/agent_base.py): sessions and their history.      *)
(***************************************************************************)
MAX_HISTORY == 10

MaxAppends == 11

Sessions == {"s1", "s2"}

ReqIds == {"r1", "r2"}

Inputs == {"hi"}

\* _get_session_context (lines 366-374): the context, created when absent
NewSessionContext == [history |-> <<>>, last_model |-> None, last_input |-> None]

GetSessionContext(sc, sid) ==
    IF sid \in DOMAIN sc THEN sc
    ELSE [q \in DOMAIN sc \cup {sid} |-> IF q = sid THEN NewSessionContext ELSE sc[q]]

\* context['history'][-10:]
LastTurns(history, n) ==
    IF Len(history) > n THEN SubSeq(history, Len(history) - n + 1, Len(history))
    ELSE history

\* bug: the slice keeps the oldest turns
LimitHistoryKeepsOldest(history) ==
    IF Len(history) > MAX_HISTORY THEN SubSeq(history, 1, MAX_HISTORY) ELSE history

\* lines 389-391
LimitHistory(history) ==
    IF Len(history) > MAX_HISTORY THEN LastTurns(history, MAX_HISTORY) ELSE history

\* 'last_input' in update_data and 'last_response' in update_data (line 381)
Appends(update_data) == update_data.last_input # None /\ update_data.last_response # None

\* _update_session_context (lines 376-394) on the context map sc
UpdatedContext(sc, sid, update_data, t) ==
    LET sc1 == GetSessionContext(sc, sid)
        turn == [input |-> update_data.last_input, response |-> update_data.last_response,
                 timestamp |-> t]
        history == IF Appends(update_data)
                   THEN LimitHistory(Append(sc1[sid].history, turn))
                   ELSE sc1[sid].history
    IN  [sc1 EXCEPT ![sid] = [@ EXCEPT !.history = history,
                                        !.last_input = update_data.last_input]]

\* None stands for a key the update does not carry
UpdateData == [last_input : Inputs \cup {None}, last_response : {"ok", None}]

\* a request's 'input' that is not a string (request.get('input', '') returns it as is)
NotAString == "<not a str>"

RequestInputs == Inputs \cup {NotAString}

\* self.name (line 47)
AgentName == "agent"

\* the error response of lines 159-163: it has no 'response' and no
\* 'tools_used' (None stands for a key the dict does not carry)
ErrorResponse(e, sid) ==
    [error |-> e, agent_name |-> AgentName, session_id |-> sid, response |-> None,
     tools_used |-> None]

NoReply ==
    [error |-> None, agent_name |-> None, session_id |-> None, response |-> None,
     tools_used |-> None]

\* the processed input as a text (line 168: strip() leaves "hi" as it is)
InputText(input) == IF input = "hi" THEN <<"h", "i">> ELSE <<>>

\* The RAG pipeline as a request's retrieval can meet it: not initialized
\* (no provider), initialized with the store still empty (initialize is
\* suspended in _load_sample_documents), and with the sample documents
\* loaded.  The cache holds no entry for the request's query.
PipelineStates == {"new", "empty", "loaded"}

PipelineDocuments(pipeline) ==
    IF pipeline = "loaded" THEN LoadSamples(<<>>, 1, RagConfig("openai")) ELSE <<>>

\* How retrieve_context ends (lines 413-470) for the OpenAI provider
\* answering with outcome: the context it returns, and whether it failed
\* on the way (an exception caught at line 468, or no embedding).
RetrieveContext(pipeline, query, outcome) ==
    IF pipeline = "new" THEN [context |-> <<>>, failed |-> TRUE]
    ELSE IF outcome = "fail" THEN [context |-> <<>>, failed |-> TRUE]
    ELSE [context |-> BuildContext(PipelineDocuments(pipeline),
                                   GetEmbedding("openai", query, outcome),
                                   RagConfig("openai")).context,
          failed |-> FALSE]

RelevantInformation == <<"\\", "n", "\\", "n", "Relevant Information:", "\\", "n">>

NoPrompt == [user_input |-> <<>>, rag_section |-> <<>>, built |-> FALSE]

\* bug: the section is made for an empty context too
BuildPromptAlwaysSection(user_input, rag_context) ==
    [user_input |-> user_input, rag_section |-> RelevantInformation \o rag_context,
     built |-> TRUE]

\* _build_prompt (lines 178-202): the parts of the prompt that depend on
\* the request
BuildPrompt(user_input, rag_context) ==
    [user_input |-> user_input,
     rag_section |-> IF rag_context # <<>> THEN RelevantInformation \o rag_context ELSE <<>>,
     built |-> TRUE]

\* steps, raised_in and completion are history: the steps of the pipeline the
\* request has started, the step an exception was raised in, and how the
\* routed completion ended.
\* history_at_call is the session's history when the request was accepted.
\* pipeline, rag_failed, rag_context, prompt and routed are history too: the
\* state of the RAG pipeline the request's retrieval met, whether the
\* retrieval failed inside retrieve_context, the context it returned, the
\* prompt built, and whether get_completion was called with it.
IdleRequest ==
    [pc |-> "idle", session_id |-> None, input |-> None, error |-> None,
     steps |-> <<>>, raised_in |-> None, completion |-> None, response |-> NoReply,
     pipeline |-> None, rag_failed |-> FALSE, rag_context |-> <<>>, prompt |-> NoPrompt,
     routed |-> FALSE, history_at_call |-> <<>>]

InitAgent ==
    /\ is_initialized = FALSE
    /\ session_context = [q \in {} |-> NewSessionContext]
    /\ requests = [r \in ReqIds |-> IdleRequest]
    /\ appended = [q \in Sessions |-> <<>>]
    /\ turn_clock = 0

\* initialize (lines 56-70): _initialize_agent succeeded
InitializeAgent ==
    /\ ~is_initialized
    /\ is_initialized' = TRUE
    /\ UNCHANGED <<session_context, requests, appended, turn_clock>>
    /\ UNCHANGED routerVars
    /\ UNCHANGED <<toolVars, laterVars>>

\* _update_session_context(session_id, update_data), lines 376-394; the
\* turn's timestamp is the time the caller read for it
UpdateSessionContext(sid, update_data) ==
    /\ Appends(update_data) => turn_clock < MaxAppends
    /\ turn_clock' = IF Appends(update_data) THEN turn_clock + 1 ELSE turn_clock
    /\ session_context' = UpdatedContext(session_context, sid, update_data, turn_clock')
    /\ appended' = [appended EXCEPT ![sid] =
           IF Appends(update_data)
           THEN Append(@, [input |-> update_data.last_input,
                           response |-> update_data.last_response,
                           timestamp |-> turn_clock'])
           ELSE @]
    /\ UNCHANGED <<is_initialized, requests>>
    /\ UNCHANGED routerVars
    /\ UNCHANGED <<toolVars, laterVars>>

\* process_request called (lines 81-103): the session is fetched or created,
\* _preprocess_input strips the input (line 168, AttributeError when it is
\* not a string), then the coroutine awaits retrieve_context
AcceptRequest(r, sid, input) ==
    /\ requests[r].pc = "idle"
    /\ IF ~is_initialized
       THEN /\ requests' = [requests EXCEPT ![r] =
                   [IdleRequest EXCEPT !.pc = "raised", !.session_id = sid,
                                       !.input = input, !.error = "RuntimeError"]]
            /\ UNCHANGED <<session_context, last_request>>
       ELSE /\ requests' = [requests EXCEPT ![r] =
                   IF input \in Inputs
                   THEN [IdleRequest EXCEPT !.pc = "retrieving", !.session_id = sid,
                                            !.input = input,
                                            !.steps = <<"session", "preprocess", "retrieve">>,
                                            !.history_at_call =
                                                GetSessionContext(session_context,
                                                                  sid)[sid].history]
                   ELSE [IdleRequest EXCEPT !.pc = "returned", !.session_id = sid,
                                            !.input = input, !.error = "AttributeError",
                                            !.steps = <<"session", "preprocess">>,
                                            !.raised_in = "preprocess",
                                            !.response = ErrorResponse("AttributeError", sid),
                                            !.history_at_call =
                                                GetSessionContext(session_context,
                                                                  sid)[sid].history]]
            /\ session_context' = GetSessionContext(session_context, sid)
            /\ last_request' = Store(last_request, sid, now)
    /\ UNCHANGED <<is_initialized, appended, turn_clock>>
    /\ UNCHANGED routerVars
    /\ UNCHANGED <<agents, cleanup_wake, manager_op>>
    /\ UNCHANGED <<toolVars, ragVars, fileVars>>

\* bug: a failure inside retrieve_context reaches process_request
RetrieveDonePropagates(r, pipeline, outcome) ==
    /\ requests[r].pc = "retrieving"
    /\ LET got == RetrieveContext(pipeline, InputText(requests[r].input), outcome)
       IN  requests' = [requests EXCEPT ![r] =
               IF got.failed
               THEN [@ EXCEPT !.pc = "returned", !.pipeline = pipeline, !.rag_failed = TRUE,
                              !.error = "RetrievalError", !.raised_in = "retrieve",
                              !.response = ErrorResponse("RetrievalError",
                                                         requests[r].session_id)]
               ELSE [@ EXCEPT !.pc = "completing", !.pipeline = pipeline,
                              !.rag_context = got.context,
                              !.prompt = BuildPrompt(InputText(requests[r].input),
                                                     got.context),
                              !.routed = TRUE,
                              !.steps = @ \o <<"prompt", "completion">>]]
    /\ UNCHANGED <<is_initialized, session_context, appended, turn_clock>>
    /\ UNCHANGED routerVars
    /\ UNCHANGED <<toolVars, laterVars>>

\* retrieve_context returns (lines 99-110; it returns "" on its own
\* failures), the prompt is built, then the coroutine calls
\* model_router.get_completion with it and awaits (line 272)
RetrieveDone(r, pipeline, outcome) ==
    /\ requests[r].pc = "retrieving"
    /\ LET got == RetrieveContext(pipeline, InputText(requests[r].input), outcome)
       IN  requests' = [requests EXCEPT ![r].pc = "completing",
                                       ![r].pipeline = pipeline,
                                       ![r].rag_failed = got.failed,
                                       ![r].rag_context = got.context,
                                       ![r].prompt =
                                           BuildPrompt(InputText(requests[r].input),
                                                       got.context),
                                       ![r].routed = TRUE,
                                       ![r].steps = @ \o <<"prompt", "completion">>]
    /\ UNCHANGED <<is_initialized, session_context, appended, turn_clock>>
    /\ UNCHANGED routerVars
    /\ UNCHANGED <<toolVars, laterVars>>

\* error of the completion step: response.get on the CompletionResponse
\* dataclass (line 278), or the exception get_completion raised
CompletionError(outcome) == IF outcome = "returns" THEN "AttributeError" ELSE "KeyError"

\* bug: the exception of the completion step leaves process_request
CompletionDonePropagates(r, outcome) ==
    /\ requests[r].pc = "completing"
    /\ requests' = [requests EXCEPT ![r].pc = "raised",
                                    ![r].error = CompletionError(outcome),
                                    ![r].raised_in = "completion",
                                    ![r].completion = outcome]
    /\ UNCHANGED <<is_initialized, session_context, appended, turn_clock>>
    /\ UNCHANGED routerVars
    /\ UNCHANGED <<toolVars, laterVars>>

\* bug: the turn is appended before the exception of the completion step
\* is handled
CompletionDoneAppends(r, outcome) ==
    /\ requests[r].pc = "completing"
    /\ requests' = [requests EXCEPT ![r].pc = "returned",
                                    ![r].error = CompletionError(outcome),
                                    ![r].raised_in = "completion",
                                    ![r].completion = outcome,
                                    ![r].response =
                                        ErrorResponse(CompletionError(outcome),
                                                      requests[r].session_id)]
    /\ session_context' =
           UpdatedContext(session_context, requests[r].session_id,
                          [last_input |-> requests[r].input, last_response |-> "ok"],
                          turn_clock)
    /\ UNCHANGED <<is_initialized, appended, turn_clock>>
    /\ UNCHANGED routerVars
    /\ UNCHANGED <<toolVars, laterVars>>

\* get_completion returns a CompletionResponse or raises (lines 272-278):
\* response.get(...) on the dataclass raises AttributeError; either exception
\* is caught at line 157 and the error response is returned (lines 159-163)
CompletionDone(r, outcome) ==
    /\ requests[r].pc = "completing"
    /\ requests' = [requests EXCEPT ![r].pc = "returned",
                                    ![r].error = CompletionError(outcome),
                                    ![r].raised_in = "completion",
                                    ![r].completion = outcome,
                                    ![r].response =
                                        ErrorResponse(CompletionError(outcome),
                                                      requests[r].session_id)]
    /\ UNCHANGED <<is_initialized, session_context, appended, turn_clock>>
    /\ UNCHANGED routerVars
    /\ UNCHANGED <<toolVars, laterVars>>

\* the caller has the response (or the exception); the slot is free again
FinishRequest(r) ==
    /\ requests[r].pc \in {"returned", "raised"}
    /\ requests' = [requests EXCEPT ![r] = IdleRequest]
    /\ UNCHANGED <<is_initialized, session_context, appended, turn_clock>>
    /\ UNCHANGED routerVars
    /\ UNCHANGED <<toolVars, laterVars>>

NextHistory ==
    \E sid \in Sessions, update_data \in UpdateData : UpdateSessionContext(sid, update_data)

NextSession ==
    \/ InitializeAgent
    \/ \E r \in ReqIds, sid \in Sessions, input \in RequestInputs : AcceptRequest(r, sid, input)
    \/ \E r \in ReqIds, pipeline \in PipelineStates, outcome \in EmbedOutcomes :
          RetrieveDone(r, pipeline, outcome)
    \/ \E r \in ReqIds, outcome \in {"returns", "raises"} : CompletionDone(r, outcome)
    \/ \E r \in ReqIds : FinishRequest(r)

(***************************************************************************)
(* ToolOrchestrator (server/tools/tool_orchestrator.py).  A text is the    *)
(* sequence of its characters.                                             *)
(***************************************************************************)
DEFAULT_MAX_CALLS == 20

\* the tools _register_tools registers (lines 550-557)
AvailableTools ==
    {"file_reader", "file_writer", "code_analyzer", "web_search", "calculator", "terminal"}

\* the parameter each tool's validate_parameters requires to be a string
RequiredParameters(tool_name) ==
    CASE tool_name = "file_reader" -> {"file_path"}
      [] tool_name = "file_writer" -> {"file_path", "content"}
      [] tool_name = "code_analyzer" -> {"code"}
      [] tool_name = "web_search" -> {"query"}
      [] tool_name = "calculator" -> {"expression"}
      [] tool_name = "terminal" -> {"command"}

\* the pieces the texts of the model are made of
PieceChars(piece) ==
    CASE piece = "kv" ->
            <<"[", "T", "O", "O", "L", ":", "c", "a", "l", "c", "u", "l", "a", "t", "o", "r", "(",
              "e", "x", "p", "r", "e", "s", "s", "i", "o", "n", "=", "2", "+", "2", ")", "]">>
      [] piece = "json" ->
            <<"[", "T", "O", "O", "L", ":", "c", "a", "l", "c", "u", "l", "a", "t", "o", "r", "(",
              "\"", "e", "x", "p", "r", "e", "s", "s", "i", "o", "n", "\"", ":", " ", "\"", "2",
              "+", "2", "\"", ")", "]">>
      [] piece = "unbalanced" ->
            <<"[", "T", "O", "O", "L", ":", "c", "a", "l", "c", "u", "l", "a", "t", "o", "r", "(",
              "e", "x", "p", "r", "e", "s", "s", "i", "o", "n", "=", "2", "+", "2">>
      [] piece = "escaped" ->
            <<"\\", "[", "T", "O", "O", "L", ":", "c", "a", "l", "c", "u", "l", "a", "t", "o", "r",
              "\\", "(", "\\", ")", "\\", "]">>
      [] piece = "plain" ->
            <<"o", "k", ".", " ">>

Pieces == {"kv", "json", "unbalanced", "escaped", "plain"}

MaxPieces == 2

RECURSIVE TextOf(_)
TextOf(pieces) ==
    IF pieces = <<>> THEN <<>> ELSE PieceChars(Head(pieces)) \o TextOf(Tail(pieces))

PieceSeqs == UNION {[1..n -> Pieces] : n \in 0..MaxPieces}

(***************************************************************************)
(* _extract_tool_calls (lines 623-653).  The pattern of line 632 is the    *)
(* raw string  \\[TOOL:(\\w+)\\((.*?)\\)\\]  : a backslash followed by one   *)
(* character of the class [TOOL:(\\w+)\\((.*?)\\)\\], and no group.          *)
(***************************************************************************)
PatternClass == {"T", "O", "L", ":", "(", "\\", "w", "+", ")", ".", "*", "?"}

\* re.findall(pattern, response, re.DOTALL) from position i on: the matches
\* from left to right, none overlapping another
RECURSIVE FindAll(_, _)
FindAll(response, i) ==
    LET starts == {j \in i..(Len(response) - 1) :
                      response[j] = "\\" /\ response[j + 1] \in PatternClass}
    IN  IF starts = {} THEN <<>>
        ELSE LET first == CHOOSE j \in starts : \A k \in starts : j <= k
             IN  <<SubSeq(response, first, first + 1)>> \o FindAll(response, first + 2)

Whitespace == {" ", "\t", "\n", "\r"}

EmptyParameters == [k \in {} |-> [type |-> "str", value |-> ""]]

\* lines 638-641 for a params_str of one character: {} when strip() leaves
\* nothing, and json.loads of "{c}" raises for every other character c
ParseParameters(params_str) ==
    IF params_str \in Whitespace THEN [ok |-> TRUE, parameters |-> EmptyParameters]
    ELSE [ok |-> FALSE, parameters |-> EmptyParameters]

\* the loop of lines 635-651 over the matches from index i on; a match is a
\* string of two characters, unpacked into (tool_name, params_str)
RECURSIVE ToolCallsFrom(_, _, _)
ToolCallsFrom(matches, i, t) ==
    IF matches = <<>> THEN <<>>
    ELSE LET tool_name == Head(matches)[1]
             parsed == ParseParameters(Head(matches)[2])
         IN  (IF parsed.ok
              THEN <<[tool_name |-> tool_name, parameters |-> parsed.parameters,
                      call_id |-> <<"call", i, t>>]>>
              ELSE <<>>)
             \o ToolCallsFrom(Tail(matches), i + 1, t)

ExtractedToolCalls(response, t) == ToolCallsFrom(FindAll(response, 1), 0, t)

(***************************************************************************)
(* Configuration and inputs of the orchestrator.                           *)
(***************************************************************************)
\* no 'enabled_tools' and no 'tool_limits' configured
ToolConfigDefault ==
    [enabled_tools |-> {}, restricted_tools |-> {"terminal"},
     tool_limits |-> [k \in {} |-> 0]]

\* "ghost_tool" is a name the configuration enables although no tool of
\* that name is registered
ToolConfigStrict ==
    [enabled_tools |-> {"calculator", "ghost_tool"}, restricted_tools |-> {},
     tool_limits |-> [k \in {"max_calls_per_session"} |-> 1]]

ToolConfigs == {ToolConfigDefault, ToolConfigStrict}

\* self.tool_limits.get('max_calls_per_session', 20)
MaxCallsPerSession(cfg) ==
    IF "max_calls_per_session" \in DOMAIN cfg.tool_limits
    THEN cfg.tool_limits["max_calls_per_session"]
    ELSE DEFAULT_MAX_CALLS

\* the agent's allowed_tools and restricted_tools (agent_base.py lines 52-53)
AllowedChoices == {{}, {"calculator"}, {"calculator", "terminal", "ghost_tool"}}

RestrictedChoices == {{}, {"calculator"}}

\* the session_context argument: the context AgentBase keeps for a session
\* (it has no 'session_id'), or a caller's dict that carries one
ContextChoices == {NewSessionContext} \cup {[session_id |-> sid] : sid \in Sessions}

\* session_context.get('session_id', 'default')
SessionKey(context) ==
    IF "session_id" \in DOMAIN context THEN context.session_id ELSE "default"

CallNames == {"calculator", "terminal", "ghost_tool"}

ParameterChoices ==
    { EmptyParameters,
      [k \in {"expression"} |-> [type |-> "str", value |-> "2+2"]],
      [k \in {"expression"} |-> [type |-> "int", value |-> "4"]] }

MaxBatch == 2

\* how many direct _execute_tool_call applications the history records
MaxExecuted == 1

\* ToolCall(tool_name, parameters, call_id) with the call_id of index i
MakeToolCall(tool_name, parameters, i) ==
    [tool_name |-> tool_name, parameters |-> parameters, call_id |-> <<"call", i, 0>>]

\* the single calls _execute_tool_call is applied to
SingleCalls == {MakeToolCall(name, parameters, 0) : name \in CallNames,
                                                    parameters \in ParameterChoices}

\* the lists of calls _filter_tool_calls is applied to
ToolCallLists ==
    UNION { { [n \in 1..len |-> MakeToolCall(f[n], EmptyParameters, n - 1)] :
              f \in [1..len -> CallNames] } :
            len \in 0..MaxBatch }

(***************************************************************************)
(* _filter_tool_calls, _check_tool_limits, _execute_tool_call and          *)
(* _update_session_tool_count.                                             *)
(***************************************************************************)
\* bug: the agent's deny-list is not consulted
FilterIgnoresRestricted(tool_calls, allowed, restricted, enabled) ==
    SelectSeq(tool_calls, LAMBDA call : call.tool_name \in allowed /\ call.tool_name \in enabled)

\* lines 655-680
RECURSIVE FilterToolCalls(_, _, _, _)
FilterToolCalls(tool_calls, allowed, restricted, enabled) ==
    IF tool_calls = <<>> THEN <<>>
    ELSE LET call == Head(tool_calls)
             rest == FilterToolCalls(Tail(tool_calls), allowed, restricted, enabled)
         IN  IF call.tool_name \notin allowed THEN rest
             ELSE IF call.tool_name \in restricted THEN rest
             ELSE IF call.tool_name \notin enabled THEN rest
             ELSE <<call>> \o rest

RECURSIVE SumCounts(_, _)
SumCounts(counts, names) ==
    IF names = {} THEN 0
    ELSE LET n == CHOOSE n \in names : TRUE
         IN  counts[n] + SumCounts(counts, names \ {n})

NoCounts == [n \in {} |-> 0]

\* lines 686-687 and 708-709: the session's counters, created when absent
WithSession(stc, key) ==
    IF key \in DOMAIN stc THEN stc
    ELSE [q \in DOMAIN stc \cup {key} |-> IF q = key THEN NoCounts ELSE stc[q]]

\* sum(self.session_tool_counts[session_id].values())
TotalCalls(stc, key) == SumCounts(WithSession(stc, key)[key], DOMAIN WithSession(stc, key)[key])

\* line 691
CheckToolLimits(stc, key, tool_calls, cfg) ==
    TotalCalls(stc, key) + Len(tool_calls) <= MaxCallsPerSession(cfg)

\* lines 706-712
UpdateSessionToolCount(stc, key, tool_name) ==
    LET stc1 == WithSession(stc, key)
        old == IF tool_name \in DOMAIN stc1[key] THEN stc1[key][tool_name] ELSE 0
    IN  [stc1 EXCEPT ![key] =
            [n \in DOMAIN stc1[key] \cup {tool_name} |->
                IF n = tool_name THEN old + 1 ELSE stc1[key][n]]]

\* validate_parameters of the registered tools (lines 118, 199, 312, 374, 434, 497)
ValidateParameters(tool_name, parameters) ==
    \A k \in RequiredParameters(tool_name) :
        k \in DOMAIN parameters /\ parameters[k].type = "str"

ToolResult(success, error) == [success |-> success, error |-> error]

\* bug: the parameters are not validated before the tool runs
ExecuteDecisionNoValidation(tool_call, registered) ==
    IF tool_call.tool_name \notin registered THEN "notfound" ELSE "execute"

\* _execute_tool_call up to its await (lines 695-704)
ExecuteDecision(tool_call, registered) ==
    IF tool_call.tool_name \notin registered THEN "notfound"
    ELSE IF ~ValidateParameters(tool_call.tool_name, tool_call.parameters) THEN "invalid"
    ELSE "execute"

\* the ToolResult of lines 697 and 701
RefusedResult(decision, tool_call) == ToolResult(FALSE, <<decision, tool_call.tool_name>>)

\* the ToolResult tool.execute returns, or the one line 615 makes of its exception
ExecuteResult(outcome) == ToolResult(outcome = "success", IF outcome = "success" THEN None ELSE outcome)

NoResults == [id \in {} |-> ToolResult(FALSE, None)]

\* before is history: the session's counters when process_response was called
IdleOp ==
    [kind |-> "idle", pc |-> "idle", pieces |-> <<>>, key |-> None, allowed |-> {},
     restricted |-> {}, tool_calls |-> <<>>, filtered |-> <<>>, i |-> 0,
     results |-> NoResults, error |-> None, before |-> NoCounts]

(***************************************************************************)
(* Actions of the orchestrator.  One method is applied at a time; tool_op  *)
(* holds its inputs, its position and its result.                          *)
(***************************************************************************)
InitTools ==
    /\ tool_config \in ToolConfigs
    /\ tools = {}
    /\ enabled_tools = tool_config.enabled_tools
    /\ session_tool_counts = [q \in {} |-> NoCounts]
    /\ tool_op = IdleOp
    /\ executed = <<>>

\* initialize (lines 530-542): _register_tools, then _enable_tools
InitializeTools ==
    /\ tools = {}
    /\ tool_op.pc = "idle"
    /\ tools' = AvailableTools
    /\ enabled_tools' = IF enabled_tools = {}
                        THEN {name \in AvailableTools : name \notin tool_config.restricted_tools}
                        ELSE enabled_tools
    /\ UNCHANGED <<tool_config, session_tool_counts, tool_op, executed>>
    /\ UNCHANGED <<routerVars, sessionVars, laterVars>>

\* _extract_tool_calls(response) on the text made of pieces
ExtractToolCalls(pieces) ==
    /\ tool_op.pc = "idle"
    /\ tool_op' = [IdleOp EXCEPT !.kind = "extract", !.pc = "returned", !.pieces = pieces,
                                 !.tool_calls = ExtractedToolCalls(TextOf(pieces), now)]
    /\ UNCHANGED <<tool_config, tools, enabled_tools, session_tool_counts, executed>>
    /\ UNCHANGED <<routerVars, sessionVars, laterVars>>

\* _filter_tool_calls(tool_calls, allowed_tools, restricted_tools)
ApplyFilter(tool_calls, allowed, restricted) ==
    /\ tool_op.pc = "idle"
    /\ tool_op' = [IdleOp EXCEPT !.kind = "filter", !.pc = "returned",
                                 !.tool_calls = tool_calls, !.allowed = allowed,
                                 !.restricted = restricted,
                                 !.filtered = FilterToolCalls(tool_calls, allowed, restricted,
                                                              enabled_tools)]
    /\ UNCHANGED <<tool_config, tools, enabled_tools, session_tool_counts, executed>>
    /\ UNCHANGED <<routerVars, sessionVars, laterVars>>

\* The loop of process_response (lines 605-615) from call j on, run until a
\* tool's execute is awaited or the batch is done.
RECURSIVE RunBatch(_, _, _, _)
RunBatch(op, j, stc, ex) ==
    IF j > Len(op.filtered)
    THEN [op |-> [op EXCEPT !.pc = "returned", !.i = j], stc |-> stc, executed |-> ex]
    ELSE LET tool_call == op.filtered[j]
             decision == ExecuteDecision(tool_call, tools)
         IN  IF decision = "execute"
             THEN [op |-> [op EXCEPT !.pc = "executing", !.i = j], stc |-> stc,
                   executed |-> Append(ex, tool_call)]
             ELSE RunBatch([op EXCEPT !.results =
                                Store(@, tool_call.call_id, RefusedResult(decision, tool_call))],
                           j + 1,
                           UpdateSessionToolCount(stc, op.key, tool_call.tool_name),
                           ex)

LimitExceeded == "Tool call limit exceeded for this session"

\* process_response (lines 574-621) up to its first await of a tool
ProcessResponse(pieces, allowed, restricted, context) ==
    /\ tool_op.pc = "idle"
    /\ LET key == SessionKey(context)
           tool_calls == ExtractedToolCalls(TextOf(pieces), now)
           filtered == FilterToolCalls(tool_calls, allowed, restricted, enabled_tools)
           op == [IdleOp EXCEPT !.kind = "response", !.pieces = pieces, !.key = key,
                                !.allowed = allowed, !.restricted = restricted,
                                !.tool_calls = tool_calls,
                                !.before = WithSession(session_tool_counts, key)[key]]
       IN  IF tool_calls = <<>> \/ filtered = <<>>
           THEN /\ tool_op' = [op EXCEPT !.pc = "returned", !.filtered = filtered]
                /\ UNCHANGED <<session_tool_counts, executed>>
           ELSE IF ~CheckToolLimits(session_tool_counts, key, filtered, tool_config)
           THEN /\ tool_op' = [op EXCEPT !.pc = "returned", !.filtered = filtered,
                                         !.error = LimitExceeded]
                /\ session_tool_counts' = WithSession(session_tool_counts, key)
                /\ UNCHANGED executed
           ELSE LET run == RunBatch([op EXCEPT !.filtered = filtered], 1,
                                    WithSession(session_tool_counts, key), executed)
                IN  /\ tool_op' = run.op
                    /\ session_tool_counts' = run.stc
                    /\ executed' = run.executed
    /\ UNCHANGED <<tool_config, tools, enabled_tools>>
    /\ UNCHANGED <<routerVars, sessionVars, laterVars>>

\* _execute_tool_call(tool_call) up to its await
ExecuteToolCall(tool_call) ==
    /\ tool_op.pc = "idle"
    /\ Len(executed) < MaxExecuted
    /\ LET decision == ExecuteDecision(tool_call, tools)
           op == [IdleOp EXCEPT !.kind = "execute", !.tool_calls = <<tool_call>>, !.i = 1]
       IN  IF decision = "execute"
           THEN /\ tool_op' = [op EXCEPT !.pc = "executing"]
                /\ executed' = Append(executed, tool_call)
           ELSE /\ tool_op' = [op EXCEPT !.pc = "returned",
                                         !.results = Store(NoResults, tool_call.call_id,
                                                           RefusedResult(decision, tool_call))]
                /\ UNCHANGED executed
    /\ UNCHANGED <<tool_config, tools, enabled_tools, session_tool_counts>>
    /\ UNCHANGED <<routerVars, sessionVars, laterVars>>

ExecOutcomes == {"success", "failure"}

\* tool.execute returns its ToolResult (line 704): _execute_tool_call
\* returns it; inside process_response it is recorded, the call is counted
\* (lines 608-611) and the loop goes on
ExecuteDone(outcome) ==
    /\ tool_op.pc = "executing"
    /\ IF tool_op.kind = "execute"
       THEN /\ tool_op' = [tool_op EXCEPT !.pc = "returned",
                                          !.results = Store(NoResults,
                                                            tool_op.tool_calls[1].call_id,
                                                            ExecuteResult(outcome))]
            /\ UNCHANGED <<session_tool_counts, executed>>
       ELSE LET tool_call == tool_op.filtered[tool_op.i]
                run == RunBatch([tool_op EXCEPT !.results =
                                     Store(@, tool_call.call_id, ExecuteResult(outcome))],
                                tool_op.i + 1,
                                UpdateSessionToolCount(session_tool_counts, tool_op.key,
                                                       tool_call.tool_name),
                                executed)
            IN  /\ tool_op' = run.op
                /\ session_tool_counts' = run.stc
                /\ executed' = run.executed
    /\ UNCHANGED <<tool_config, tools, enabled_tools>>
    /\ UNCHANGED <<routerVars, sessionVars, laterVars>>

\* the caller has the result; the next method is applied
FinishToolOp ==
    /\ tool_op.pc = "returned"
    /\ tool_op' = IdleOp
    /\ UNCHANGED <<tool_config, tools, enabled_tools, session_tool_counts, executed>>
    /\ UNCHANGED <<routerVars, sessionVars, laterVars>>

NextTools ==
    \/ InitializeTools
    \/ \E pieces \in PieceSeqs : ExtractToolCalls(pieces)
    \/ \E tool_calls \in ToolCallLists, allowed \in AllowedChoices,
          restricted \in RestrictedChoices : ApplyFilter(tool_calls, allowed, restricted)
    \/ \E pieces \in PieceSeqs, allowed \in AllowedChoices, restricted \in RestrictedChoices,
          context \in ContextChoices : ProcessResponse(pieces, allowed, restricted, context)
    \/ \E tool_call \in SingleCalls : ExecuteToolCall(tool_call)
    \/ \E outcome \in ExecOutcomes : ExecuteDone(outcome)
    \/ FinishToolOp

(***************************************************************************)
(* Applications of _split_text.                                            *)
(***************************************************************************)
IdleSplit ==
    [pc |-> "idle", text |-> <<>>, chunk_size |-> 0, chunk_overlap |-> 0,
     returned |-> FALSE, chunks |-> <<>>, spans |-> <<>>]

InitSplit == split = IdleSplit

\* _split_text is applied to a text; it returns its chunks or never returns
ApplySplit(text, cfg) ==
    /\ split.pc = "idle"
    /\ LET res == SplitText(text, cfg.chunk_size, cfg.chunk_overlap)
       IN  split' = [pc |-> IF res.returned THEN "returned" ELSE "looping",
                     text |-> text, chunk_size |-> cfg.chunk_size,
                     chunk_overlap |-> cfg.chunk_overlap, returned |-> res.returned,
                     chunks |-> res.chunks, spans |-> res.spans]
    /\ UNCHANGED <<rag_config, embedding_provider, vector_store, rag_cache, rag_init, rag_add,
                   rag_get>>
    /\ UNCHANGED <<routerVars, sessionVars, toolVars, fileVars, managerVars>>

\* the caller has the chunks; the next text is split
FinishSplit ==
    /\ split.pc = "returned"
    /\ split' = IdleSplit
    /\ UNCHANGED <<rag_config, embedding_provider, vector_store, rag_cache, rag_init, rag_add,
                   rag_get>>
    /\ UNCHANGED <<routerVars, sessionVars, toolVars, fileVars, managerVars>>

NextSplit ==
    \/ \E text \in Texts, cfg \in SplitConfigs : ApplySplit(text, cfg)
    \/ FinishSplit

(***************************************************************************)
(* Actions of the RAG pipeline.                                            *)
(***************************************************************************)
\* f"{md5(query)}_{agent_id}" (line 421)
CacheKey(query, agent_id) == <<query, agent_id>>

\* an entry's parts and corpus are history: the chunks the context was made
\* of and how many chunks the store held then
NoCache == [k \in {} |-> [context |-> <<>>, parts |-> <<>>, corpus |-> 0]]

IdleAdd ==
    [pc |-> "idle", kind |-> None, doc |-> 0, source |-> <<>>, chunks |-> <<>>, i |-> 0,
     ok |-> FALSE]

\* searched is history: the chunks the store held when it was searched
IdleGet ==
    [pc |-> "idle", query |-> <<>>, result |-> <<>>, parts |-> <<>>, from_cache |-> FALSE,
     corpus_at_call |-> 0, cached_corpus |-> 0, raised |-> FALSE, searched |-> <<>>]

InitRag ==
    /\ rag_config \in RagConfigs
    /\ embedding_provider = None
    /\ vector_store = <<>>
    /\ rag_cache = NoCache
    /\ rag_init = "new"
    /\ rag_add = IdleAdd
    /\ rag_get = IdleGet

\* how many chunks the store holds
StoreSize == Len(vector_store)

\* _add_document entered for a document under the OpenAI provider: it is
\* suspended in the embedding of its first chunk
AddOp(kind, n, doc, cfg) ==
    [pc |-> "embedding", kind |-> kind, doc |-> n, source |-> doc.source,
     chunks |-> SplitText(doc.content, cfg.chunk_size, cfg.chunk_overlap).chunks,
     i |-> 1, ok |-> FALSE]

\* initialize (lines 288-311): the provider, the store, then the sample
\* documents
InitializeRag ==
    /\ rag_init = "new"
    /\ rag_add.pc = "idle"
    /\ embedding_provider' = rag_config.embedding_model
    /\ IF rag_config.embedding_model = "simple"
       THEN /\ vector_store' = LoadSamples(<<>>, 1, rag_config)
            /\ rag_init' = "done"
            /\ UNCHANGED rag_add
       ELSE /\ vector_store' = <<>>
            /\ rag_init' = "loading"
            /\ rag_add' = AddOp("load", 1, SampleDocs[1], rag_config)
    /\ UNCHANGED <<rag_config, rag_cache, rag_get, split>>
    /\ UNCHANGED <<routerVars, sessionVars, toolVars, fileVars, managerVars>>

\* add_document(content, metadata) (lines 481-494) up to its first
\* suspension
AddStart(doc) ==
    /\ rag_add.pc = "idle"
    /\ rag_init # "loading"
    /\ StoreSize < MaxStored
    /\ LET res == SplitText(doc.content, rag_config.chunk_size, rag_config.chunk_overlap)
       IN  /\ res.returned
           /\ IF embedding_provider = None
              THEN \* AttributeError at line 366, caught at line 492
                   /\ rag_add' = [IdleAdd EXCEPT !.pc = "returned", !.kind = "add",
                                                 !.source = doc.source, !.chunks = res.chunks]
                   /\ UNCHANGED <<vector_store, rag_cache>>
              ELSE IF embedding_provider = "simple"
              THEN /\ vector_store' = AddChunks(vector_store, doc.source, res.chunks, 1)
                   /\ rag_cache' = NoCache
                   /\ rag_add' = [IdleAdd EXCEPT !.pc = "returned", !.kind = "add",
                                                 !.source = doc.source, !.chunks = res.chunks,
                                                 !.i = Len(res.chunks) + 1, !.ok = TRUE]
              ELSE /\ rag_add' = AddOp("add", 0, doc, rag_config)
                   /\ UNCHANGED <<vector_store, rag_cache>>
    /\ UNCHANGED <<rag_config, embedding_provider, rag_init, rag_get, split>>
    /\ UNCHANGED <<routerVars, sessionVars, toolVars, fileVars, managerVars>>

\* The OpenAI provider answers for chunk i: the chunk goes into the store
\* (lines 369-377) and the loop goes on to the next suspension, or
\* _add_document returns: add_document clears the cache (line 487),
\* _load_sample_documents goes on to its next document.
AddEmbedded(outcome) ==
    /\ rag_add.pc = "embedding"
    /\ LET chunk == MakeChunk(rag_add.source, rag_add.i - 1, rag_add.chunks[rag_add.i],
                              GetEmbedding("openai", rag_add.chunks[rag_add.i], outcome))
       IN  /\ vector_store' = Append(vector_store, chunk)
           /\ IF rag_add.i < Len(rag_add.chunks)
              THEN /\ rag_add' = [rag_add EXCEPT !.i = @ + 1]
                   /\ UNCHANGED <<rag_cache, rag_init>>
              ELSE IF rag_add.kind = "add"
              THEN /\ rag_add' = [rag_add EXCEPT !.pc = "returned", !.i = @ + 1, !.ok = TRUE]
                   /\ rag_cache' = NoCache
                   /\ UNCHANGED rag_init
              ELSE IF rag_add.doc < Len(SampleDocs)
              THEN /\ rag_add' = AddOp("load", rag_add.doc + 1, SampleDocs[rag_add.doc + 1],
                                       rag_config)
                   /\ UNCHANGED <<rag_cache, rag_init>>
              ELSE /\ rag_add' = IdleAdd
                   /\ rag_init' = "done"
                   /\ UNCHANGED rag_cache
    /\ UNCHANGED <<rag_config, embedding_provider, rag_get, split>>
    /\ UNCHANGED <<routerVars, sessionVars, toolVars, fileVars, managerVars>>

\* the caller of add_document has its answer
FinishAdd ==
    /\ rag_add.pc = "returned"
    /\ rag_add' = IdleAdd
    /\ UNCHANGED <<rag_config, embedding_provider, vector_store, rag_cache, rag_init, rag_get,
                   split>>
    /\ UNCHANGED <<routerVars, sessionVars, toolVars, fileVars, managerVars>>

\* Lines 429-466 once the query's embedding is there: the result, and the
\* cache entry when one is made.  corpus records, for the properties, how
\* many chunks the store held when the context was made.
Retrieved(op, query_embedding) ==
    LET built == BuildContext(vector_store, query_embedding, rag_config)
    IN  [op |-> [op EXCEPT !.pc = "returned", !.result = built.context,
                           !.parts = built.parts,
                           !.searched = IF query_embedding = <<>> THEN <<>>
                                        ELSE vector_store],
         cache |-> IF built.cached
                   THEN Store(rag_cache, CacheKey(op.query, AgentName),
                              [context |-> built.context, parts |-> built.parts,
                               corpus |-> StoreSize])
                   ELSE rag_cache]

\* retrieve_context(query, agent_id, session_context) (lines 406-470) up to
\* its first suspension
RetrieveStart(query) ==
    /\ rag_get.pc = "idle"
    /\ LET op == [IdleGet EXCEPT !.query = query, !.corpus_at_call = StoreSize]
       IN  IF CacheKey(query, AgentName) \in DOMAIN rag_cache
           THEN /\ rag_get' = [op EXCEPT !.pc = "returned", !.from_cache = TRUE,
                                         !.result = rag_cache[CacheKey(query, AgentName)].context,
                                         !.parts = rag_cache[CacheKey(query, AgentName)].parts,
                                         !.cached_corpus =
                                             rag_cache[CacheKey(query, AgentName)].corpus]
                /\ UNCHANGED rag_cache
           ELSE IF embedding_provider = None
           THEN \* AttributeError at line 427, caught at line 468
                /\ rag_get' = [op EXCEPT !.pc = "returned", !.raised = TRUE]
                /\ UNCHANGED rag_cache
           ELSE IF embedding_provider = "simple"
           THEN LET done == Retrieved(op, GetEmbedding("simple", query, "ok"))
                IN  /\ rag_get' = done.op
                    /\ rag_cache' = done.cache
           ELSE /\ rag_get' = [op EXCEPT !.pc = "embedding"]
                /\ UNCHANGED rag_cache
    /\ UNCHANGED <<rag_config, embedding_provider, vector_store, rag_init, rag_add, split>>
    /\ UNCHANGED <<routerVars, sessionVars, toolVars, fileVars, managerVars>>

\* the OpenAI provider answers for the query
RetrieveEmbedded(outcome) ==
    /\ rag_get.pc = "embedding"
    /\ LET done == Retrieved(rag_get, GetEmbedding("openai", rag_get.query, outcome))
       IN  /\ rag_get' = done.op
           /\ rag_cache' = done.cache
    /\ UNCHANGED <<rag_config, embedding_provider, vector_store, rag_init, rag_add, split>>
    /\ UNCHANGED <<routerVars, sessionVars, toolVars, fileVars, managerVars>>

\* the caller of retrieve_context has the context
FinishRetrieve ==
    /\ rag_get.pc = "returned"
    /\ rag_get' = IdleGet
    /\ UNCHANGED <<rag_config, embedding_provider, vector_store, rag_cache, rag_init, rag_add,
                   split>>
    /\ UNCHANGED <<routerVars, sessionVars, toolVars, fileVars, managerVars>>

NextRag ==
    \/ InitializeRag
    \/ \E doc \in DocChoices : AddStart(doc)
    \/ \E outcome \in EmbedOutcomes : AddEmbedded(outcome)
    \/ FinishAdd
    \/ \E query \in QueryChoices : RetrieveStart(query)
    \/ \E outcome \in EmbedOutcomes : RetrieveEmbedded(outcome)
    \/ FinishRetrieve

(***************************************************************************)
(* FileReaderTool and FileWriterTool (server/tools/tool_orchestrator.py    *)
(* lines 69-195).  A path is a sequence of components, each a text; the    *)
(* file system of the model holds plain files and no symbolic link.        *)
(***************************************************************************)
MAX_FILE_SIZE == 1048576

\* self.allowed_extensions (lines 73 and 139)
AllowedExtensions ==
    { <<".", "t", "x", "t">>,
      <<".", "m", "d">>,
      <<".", "p", "y">>,
      <<".", "j", "s">>,
      <<".", "t", "s">>,
      <<".", "j", "s", "o", "n">>,
      <<".", "y", "a", "m", "l">>,
      <<".", "y", "m", "l">>,
      <<".", "h", "t", "m", "l">>,
      <<".", "c", "s", "s">> }

\* the process's working directory
WorkingDirectory == <<<<"a", "p", "p">>>>

\* self.allowed_directories of the writer (line 140): '/tmp', './workspace'
\* and './data'; the reader has no such list
AllowedDirectories ==
    { [absolute |-> TRUE, parts |-> <<<<"t", "m", "p">>>>],
      [absolute |-> FALSE, parts |-> <<<<".">>, <<"w", "o", "r", "k", "s", "p", "a", "c", "e">>>>],
      [absolute |-> FALSE, parts |-> <<<<".">>, <<"d", "a", "t", "a">>>>] }

\* the file_path parameters the tools are executed with
PathChoices ==
    { [absolute |-> TRUE, parts |-> <<<<"t", "m", "p">>, <<"a", ".", "t", "x", "t">>>>],
      [absolute |-> TRUE, parts |-> <<<<"t", "m", "p", "2">>, <<"a", ".", "t", "x", "t">>>>],
      [absolute |-> TRUE, parts |-> <<<<"h", "o", "m", "e">>, <<"a", ".", "t", "x", "t">>>>],
      [absolute |-> TRUE, parts |-> <<<<"e", "t", "c">>, <<"a", ".", "t", "x", "t">>>>],
      [absolute |-> TRUE, parts |-> <<<<"t", "m", "p">>, <<"a", ".", "b", "i", "n">>>>],
      [absolute |-> TRUE, parts |-> <<<<"t", "m", "p">>, <<".", ".">>, <<"h", "o", "m", "e">>, <<"a", ".", "t", "x", "t">>>>],
      [absolute |-> FALSE, parts |-> <<<<"w", "o", "r", "k", "s", "p", "a", "c", "e">>, <<"a", ".", "t", "x", "t">>>>],
      [absolute |-> FALSE, parts |-> <<>>] }

\* the sizes in bytes of the contents written and of the files there are
ContentSizes == {5, MAX_FILE_SIZE + 1}

\* the path as a string
RECURSIVE JoinPath(_)
JoinPath(parts) ==
    IF parts = <<>> THEN <<>>
    ELSE IF Len(parts) = 1 THEN parts[1]
    ELSE parts[1] \o <<"/">> \o JoinPath(Tail(parts))

PathString(path) ==
    IF path.absolute THEN <<"/">> \o JoinPath(path.parts) ELSE JoinPath(path.parts)

\* the components with '.' dropped and '..' taking back the one before it
RECURSIVE Normalize(_, _)
Normalize(done, parts) ==
    IF parts = <<>> THEN done
    ELSE IF Head(parts) = <<".">> THEN Normalize(done, Tail(parts))
    ELSE IF Head(parts) = <<".", ".">>
         THEN Normalize(IF done = <<>> THEN <<>> ELSE SubSeq(done, 1, Len(done) - 1),
                        Tail(parts))
         ELSE Normalize(Append(done, Head(parts)), Tail(parts))

\* Path(file_path).resolve(): the components of the absolute path
Resolve(path) ==
    Normalize(<<>>, IF path.absolute THEN path.parts ELSE WorkingDirectory \o path.parts)

\* str(Path(file_path).resolve())
ResolvedString(path) == <<"/">> \o JoinPath(Resolve(path))

\* s.startswith(prefix)
StartsWith(s, prefix) ==
    Len(prefix) <= Len(s) /\ SubSeq(s, 1, Len(prefix)) = prefix

\* s.endswith(suffix)
EndsWith(s, suffix) ==
    Len(suffix) <= Len(s) /\ SubSeq(s, Len(s) - Len(suffix) + 1, Len(s)) = suffix

\* sub in s
Contains(s, sub) ==
    \E n \in 1..(Len(s) - Len(sub) + 1) : SubSeq(s, n, n + Len(sub) - 1) = sub

\* lines 96 and 178
ExtensionAllowed(file_path) ==
    \E ext \in AllowedExtensions : EndsWith(file_path, ext)

\* lines 164-175
PathAllowed(path) ==
    \E allowed_dir \in AllowedDirectories :
        StartsWith(ResolvedString(path), ResolvedString(allowed_dir))

\* FileReaderTool.execute (lines 76-114): what it comes to
ReaderDecision(path, fs) ==
    LET file_path == PathString(path)
    IN  IF file_path = <<>> THEN "required"
        ELSE IF Contains(file_path, <<".", ".">>)
                \/ StartsWith(ResolvedString(path), <<"/", "e", "t", "c">>) THEN "not allowed"
        ELSE IF ~ExtensionAllowed(file_path) THEN "file type"
        ELSE IF ResolvedString(path) \in DOMAIN fs /\ fs[ResolvedString(path)] > MAX_FILE_SIZE
             THEN "too large"
        ELSE IF ResolvedString(path) \in DOMAIN fs THEN "read"
        ELSE "not found"

\* FileWriterTool.execute (lines 142-195): what it comes to
WriterDecision(path, size) ==
    LET file_path == PathString(path)
    IN  IF file_path = <<>> THEN "required"
        ELSE IF Contains(file_path, <<".", ".">>) THEN "traversal"
        ELSE IF ~PathAllowed(path) THEN "not allowed"
        ELSE IF ~ExtensionAllowed(file_path) THEN "file type"
        ELSE IF size > MAX_FILE_SIZE THEN "too large"
        ELSE "write"

\* touched is the resolved path of the file the tool read or wrote, <<>>
\* when it touched none
IdleFileOp ==
    [pc |-> "idle", tool |-> None, path |-> [absolute |-> FALSE, parts |-> <<>>],
     success |-> FALSE, decision |-> None, touched |-> <<>>]

\* the files there are before a tool runs: sizes in bytes
InitFiles ==
    /\ files = [f \in { <<"/", "h", "o", "m", "e", "/", "a", ".", "t", "x", "t">>,
                         <<"/", "e", "t", "c", "/", "a", ".", "t", "x", "t">> } |-> 5]
    /\ file_op = IdleFileOp

\* file_reader.execute({'file_path': path})
ReadFile(path) ==
    /\ file_op.pc = "idle"
    /\ LET decision == ReaderDecision(path, files)
       IN  file_op' = [pc |-> "returned", tool |-> "file_reader", path |-> path,
                       success |-> decision = "read", decision |-> decision,
                       touched |-> IF decision = "read" THEN Resolve(path) ELSE <<>>]
    /\ UNCHANGED files
    /\ UNCHANGED <<routerVars, sessionVars, toolVars, ragVars, managerVars>>

\* file_writer.execute({'file_path': path, 'content': content of size bytes})
WriteFile(path, size) ==
    /\ file_op.pc = "idle"
    /\ LET decision == WriterDecision(path, size)
       IN  /\ file_op' = [pc |-> "returned", tool |-> "file_writer", path |-> path,
                          success |-> decision = "write", decision |-> decision,
                          touched |-> IF decision = "write" THEN Resolve(path) ELSE <<>>]
           /\ files' = IF decision = "write" THEN Store(files, ResolvedString(path), size)
                       ELSE files
    /\ UNCHANGED <<routerVars, sessionVars, toolVars, ragVars, managerVars>>

\* the caller has the tool's result
FinishFileOp ==
    /\ file_op.pc = "returned"
    /\ file_op' = IdleFileOp
    /\ UNCHANGED files
    /\ UNCHANGED <<routerVars, sessionVars, toolVars, ragVars, managerVars>>

NextFiles ==
    \/ \E path \in PathChoices : ReadFile(path)
    \/ \E path \in PathChoices, size \in ContentSizes : WriteFile(path, size)
    \/ FinishFileOp

(***************************************************************************)
(* AgentManager (server/core/agent_manager.py).  The instances it would    *)
(* hold wrap the agent of this model.                                      *)
(***************************************************************************)
\* asyncio.sleep(300) of the cleanup task (line 193)
CLEANUP_INTERVAL == 300

\* config['agent_timeout'] in minutes (line 55; the default is 60): one
\* minute, so that a session is idle for longer within the time modelled
AGENT_TIMEOUT == 1

\* self.agent_timeout * 60 (line 196)
TimeoutThreshold == AGENT_TIMEOUT * 60

AgentIds == {AgentName}

NoAgents == [a \in {} |-> [last_used |-> 0, request_count |-> 0, is_active |-> FALSE]]

IdleManagerOp == [pc |-> "idle", kind |-> None, agent_id |-> None, result |-> None]

InitManager ==
    /\ agents = NoAgents
    /\ cleanup_wake = -1
    /\ manager_op = IdleManagerOp
    /\ last_request = [q \in {} |-> 0]

\* initialize (lines 61-68): the cleanup task is created and goes to sleep
InitializeManager ==
    /\ cleanup_wake = -1
    /\ cleanup_wake' = now + CLEANUP_INTERVAL
    /\ UNCHANGED <<agents, manager_op, last_request>>
    /\ UNCHANGED <<routerVars, sessionVars, toolVars, ragVars, fileVars>>

\* register_agent (lines 70-118): past the two checks, AgentBase(...) of
\* line 87 instantiates a class with an abstract method: TypeError, caught
\* at line 116
RegisterAgent(agent_id) ==
    /\ manager_op.pc = "idle"
    /\ manager_op' = [pc |-> "returned", kind |-> "register", agent_id |-> agent_id,
                      result |-> "False"]
    /\ UNCHANGED <<agents, cleanup_wake, last_request>>
    /\ UNCHANGED <<routerVars, sessionVars, toolVars, ragVars, fileVars>>

\* get_agent (lines 120-129)
GetAgent(agent_id) ==
    /\ manager_op.pc = "idle"
    /\ IF agent_id \in DOMAIN agents /\ agents[agent_id].is_active
       THEN /\ agents' = [agents EXCEPT ![agent_id].last_used = now,
                                        ![agent_id].request_count = @ + 1]
            /\ manager_op' = [pc |-> "returned", kind |-> "get", agent_id |-> agent_id,
                              result |-> "agent"]
       ELSE /\ manager_op' = [pc |-> "returned", kind |-> "get", agent_id |-> agent_id,
                              result |-> None]
            /\ UNCHANGED agents
    /\ UNCHANGED <<cleanup_wake, last_request>>
    /\ UNCHANGED <<routerVars, sessionVars, toolVars, ragVars, fileVars>>

\* the instances after deactivate_agent ran for each of ids (lines 162-164)
Deactivated(ag, ids) ==
    [a \in DOMAIN ag |-> IF a \in ids THEN [ag[a] EXCEPT !.is_active = FALSE] ELSE ag[a]]

\* deactivate_agent (lines 160-172): the instance is marked and its agent's
\* cleanup (agent_base.py lines 412-416) drops every session
DeactivateAgent(agent_id) ==
    /\ manager_op.pc = "idle"
    /\ IF agent_id \in DOMAIN agents
       THEN /\ agents' = Deactivated(agents, {agent_id})
            /\ session_context' = [q \in {} |-> NewSessionContext]
            /\ is_initialized' = FALSE
            /\ manager_op' = [pc |-> "returned", kind |-> "deactivate",
                              agent_id |-> agent_id, result |-> "True"]
       ELSE /\ manager_op' = [pc |-> "returned", kind |-> "deactivate",
                              agent_id |-> agent_id, result |-> "False"]
            /\ UNCHANGED <<agents, session_context, is_initialized>>
    /\ UNCHANGED <<requests, appended, turn_clock>>
    /\ UNCHANGED <<cleanup_wake, last_request>>
    /\ UNCHANGED <<routerVars, toolVars, ragVars, fileVars>>

\* reactivate_agent (lines 174-187): the agent's initialize (agent_base.py
\* lines 56-70) returns False when _initialize_agent raises and raises
\* nothing itself; the instance is marked active whatever it returned
ReactivateAgent(agent_id, initialized) ==
    /\ manager_op.pc = "idle"
    /\ IF agent_id \in DOMAIN agents /\ ~agents[agent_id].is_active
       THEN /\ agents' = [agents EXCEPT ![agent_id].is_active = TRUE,
                                        ![agent_id].last_used = now]
            /\ is_initialized' = (is_initialized \/ initialized)
            /\ manager_op' = [pc |-> "returned", kind |-> "reactivate",
                              agent_id |-> agent_id, result |-> "True"]
       ELSE /\ manager_op' = [pc |-> "returned", kind |-> "reactivate",
                              agent_id |-> agent_id, result |-> "False"]
            /\ UNCHANGED <<agents, is_initialized>>
    /\ UNCHANGED <<session_context, requests, appended, turn_clock>>
    /\ UNCHANGED <<cleanup_wake, last_request>>
    /\ UNCHANGED <<routerVars, toolVars, ragVars, fileVars>>

\* the instances the sweep deactivates (lines 198-200)
Expired(ag, current_time) ==
    {a \in DOMAIN ag : ~ag[a].is_active \/ current_time - ag[a].last_used > TimeoutThreshold}

\* The cleanup task wakes (lines 193-203): every instance that is inactive
\* or was last used longer ago than the threshold is deactivated, then the
\* task sleeps again.
CleanupInactiveAgents ==
    /\ cleanup_wake # -1
    /\ now >= cleanup_wake
    /\ LET expired == Expired(agents, now)
       IN  /\ agents' = Deactivated(agents, expired)
           /\ IF expired # {}
              THEN /\ session_context' = [q \in {} |-> NewSessionContext]
                   /\ is_initialized' = FALSE
              ELSE UNCHANGED <<session_context, is_initialized>>
    /\ cleanup_wake' = now + CLEANUP_INTERVAL
    /\ UNCHANGED <<requests, appended, turn_clock>>
    /\ UNCHANGED <<manager_op, last_request>>
    /\ UNCHANGED <<routerVars, toolVars, ragVars, fileVars>>

\* the caller has the method's result
FinishManagerOp ==
    /\ manager_op.pc = "returned"
    /\ manager_op' = IdleManagerOp
    /\ UNCHANGED <<agents, cleanup_wake, last_request>>
    /\ UNCHANGED <<routerVars, sessionVars, toolVars, ragVars, fileVars>>

(***************************************************************************)
(* Actions of the router.                                                  *)
(***************************************************************************)
InitRouter ==
    /\ config \in Configs
    /\ model_configs = <<>>
    /\ health_cache = [p \in {} |-> FALSE]
    /\ last_health_check = [p \in {} |-> 0]
    /\ now = 0
    /\ calls = [c \in CallIds |-> IdleCall]
    /\ status = IdleStatus
    /\ init_pc = 0

\* the orchestrator as constructed with the default configuration
InitToolsDefault ==
    /\ InitTools
    /\ tool_config = ToolConfigDefault

\* the state of the other components after their construction
InitLater ==
    /\ InitSplit
    /\ InitRag
    /\ rag_config = RagConfig("simple")
    /\ InitFiles
    /\ InitManager

Init ==
    /\ InitRouter
    /\ env = FreeEnv
    /\ InitAgent
    /\ InitToolsDefault
    /\ InitLater

\* time passes while coroutines are suspended
Tick ==
    /\ now + TickStep <= MaxTicks * TickStep
    /\ now' = now + TickStep
    /\ UNCHANGED <<config, env, model_configs, health_cache, last_health_check, calls,
                   status, init_pc>>
    /\ UNCHANGED sessionVars
    /\ UNCHANGED <<toolVars, laterVars>>

RECURSIVE NextHealthCheck(_, _)
\* _perform_health_checks (lines 408-416) from provider n on, up to its await
NextHealthCheck(n, mc) ==
    IF n > Len(ProviderOrder) THEN n
    ELSE IF HasSampleConfig(ProviderOrder[n], mc) THEN n
    ELSE NextHealthCheck(n + 1, mc)

\* initialize (lines 357-366): load the configurations, start the health checks
Initialize ==
    /\ init_pc = 0
    /\ model_configs' = LoadModelConfigurations(config)
    /\ init_pc' = NextHealthCheck(1, model_configs')
    /\ UNCHANGED <<config, env, health_cache, last_health_check, now, calls, status>>
    /\ UNCHANGED sessionVars
    /\ UNCHANGED <<toolVars, laterVars>>

\* _perform_health_checks: a health check returns (lines 417-419)
InitProbeDone(is_healthy) ==
    /\ init_pc \in 1..Len(ProviderOrder)
    /\ ProbeAllowed(ProviderOrder[init_pc], is_healthy)
    /\ health_cache' = Store(health_cache, ProviderOrder[init_pc], is_healthy)
    /\ last_health_check' = Store(last_health_check, ProviderOrder[init_pc], now)
    /\ init_pc' = NextHealthCheck(init_pc + 1, model_configs)
    /\ UNCHANGED <<config, env, model_configs, now, calls, status>>
    /\ UNCHANGED sessionVars
    /\ UNCHANGED <<toolVars, laterVars>>

\* get_completion called: lines 428-459, then the loop up to its first await
StartCall(c, preferred) ==
    /\ calls[c].pc = "idle"
    /\ LET call == [IdleCall EXCEPT !.preferred = preferred,
                                    !.models = UniqueModels(config, preferred)]
       IN  calls' = [calls EXCEPT ![c] =
               Resume(call, 1, health_cache, last_health_check, model_configs)]
    /\ UNCHANGED <<config, env, model_configs, health_cache, last_health_check, now,
                   status, init_pc>>
    /\ UNCHANGED sessionVars
    /\ UNCHANGED <<toolVars, laterVars>>

\* provider.health_check returns is_healthy: lines 532-536, then 471-473
ProbeDone(c, is_healthy) ==
    /\ calls[c].pc = "probing"
    /\ LET call == calls[c]
           p == KeyProvider(call.models[call.i])
           hc == Store(health_cache, p, is_healthy)
           lhc == Store(last_health_check, p, call.current_time)
       IN  /\ ProbeAllowed(p, is_healthy)
           /\ health_cache' = hc
           /\ last_health_check' = lhc
           /\ calls' = [calls EXCEPT ![c] =
                  IF is_healthy
                  THEN [call EXCEPT !.pc = "attempting"]
                  ELSE Resume(call, call.i + 1, hc, lhc, model_configs)]
    /\ UNCHANGED <<config, env, model_configs, now, status, init_pc>>
    /\ UNCHANGED sessionVars
    /\ UNCHANGED <<toolVars, laterVars>>

\* bug: the success branch does not return, the loop goes on
AttemptDoneNoReturn(c, out) ==
    /\ calls[c].pc = "attempting"
    /\ LET call == calls[c]
           k == call.models[call.i]
       IN  /\ AttemptAllowed(k, out)
           /\ calls' = [calls EXCEPT ![c] =
                  Resume([call EXCEPT !.last_error =
                                         IF out = "ok" THEN call.last_error
                                         ELSE LastError(out, k, call.last_error),
                                      !.last_fail =
                                         IF out = "ok" THEN call.last_fail
                                         ELSE <<out, call.i>>,
                                      !.last_ok =
                                         IF out = "ok" THEN call.i ELSE call.last_ok],
                         call.i + 1, health_cache, last_health_check, model_configs)]
    /\ UNCHANGED <<config, env, model_configs, health_cache, last_health_check, now,
                   status, init_pc>>
    /\ UNCHANGED sessionVars
    /\ UNCHANGED <<toolVars, laterVars>>

\* provider.get_completion returns or raises: lines 488-499
AttemptDone(c, out) ==
    /\ calls[c].pc = "attempting"
    /\ LET call == calls[c]
           k == call.models[call.i]
       IN  /\ AttemptAllowed(k, out)
           /\ calls' = [calls EXCEPT ![c] =
                  IF out = "ok"
                  THEN [call EXCEPT !.pc = "done", !.response = SuccessResponse(k),
                                    !.last_ok = call.i]
                  ELSE Resume([call EXCEPT !.last_error = LastError(out, k, call.last_error),
                                           !.last_fail = <<out, call.i>>],
                              call.i + 1, health_cache, last_health_check, model_configs)]
    /\ UNCHANGED <<config, env, model_configs, health_cache, last_health_check, now,
                   status, init_pc>>
    /\ UNCHANGED sessionVars
    /\ UNCHANGED <<toolVars, laterVars>>

Outcomes == {"ok", "failed", "raised"}

\* the caller has the result (or the exception); the slot serves the next call
Return(c) ==
    /\ calls[c].pc \in {"done", "raised"}
    /\ calls' = [calls EXCEPT ![c] = IdleCall]
    /\ UNCHANGED <<config, env, model_configs, health_cache, last_health_check, now,
                   status, init_pc>>
    /\ UNCHANGED sessionVars
    /\ UNCHANGED <<toolVars, laterVars>>

RECURSIVE StatusScan(_, _, _, _)
\* get_provider_status (lines 549-558) from provider n on, up to its await
StatusScan(n, hc, lhc, mc) ==
    IF n > Len(ProviderOrder) THEN n
    ELSE IF HealthLookup(ProviderOrder[n], hc, lhc, mc, now) = "probe" THEN n
    ELSE StatusScan(n + 1, hc, lhc, mc)

StatusResume(n, hc, lhc, mc) ==
    LET m == StatusScan(n, hc, lhc, mc)
    IN  IF m > Len(ProviderOrder) THEN IdleStatus
        ELSE [pc |-> "probing", n |-> m, current_time |-> now]

\* get_provider_status called
StartStatus ==
    /\ status.pc = "idle"
    /\ status' = StatusResume(1, health_cache, last_health_check, model_configs)
    /\ UNCHANGED <<config, env, model_configs, health_cache, last_health_check, now,
                   calls, init_pc>>
    /\ UNCHANGED sessionVars
    /\ UNCHANGED <<toolVars, laterVars>>

\* the health check awaited by get_provider_status returns
StatusProbeDone(is_healthy) ==
    /\ status.pc = "probing"
    /\ LET p == ProviderOrder[status.n]
           hc == Store(health_cache, p, is_healthy)
           lhc == Store(last_health_check, p, status.current_time)
       IN  /\ ProbeAllowed(p, is_healthy)
           /\ health_cache' = hc
           /\ last_health_check' = lhc
           /\ status' = StatusResume(status.n + 1, hc, lhc, model_configs)
    /\ UNCHANGED <<config, env, model_configs, now, calls, init_pc>>
    /\ UNCHANGED sessionVars
    /\ UNCHANGED <<toolVars, laterVars>>

Next ==
    \/ Tick
    \/ Initialize
    \/ \E is_healthy \in BOOLEAN : InitProbeDone(is_healthy)
    \/ \E c \in CallIds, preferred \in PreferredChoices : StartCall(c, preferred)
    \/ \E c \in CallIds, is_healthy \in BOOLEAN : ProbeDone(c, is_healthy)
    \/ \E c \in CallIds, out \in Outcomes : AttemptDone(c, out)
    \/ \E c \in CallIds : Return(c)
    \/ StartStatus
    \/ \E is_healthy \in BOOLEAN : StatusProbeDone(is_healthy)

Spec == Init /\ [][Next]_vars

InitSession ==
    /\ InitRouter
    /\ config = ConfigDefault
    /\ env = FreeEnv
    /\ InitAgent
    /\ InitToolsDefault
    /\ InitLater

SpecSession == InitSession /\ [][NextSession]_vars

SpecHistory == InitSession /\ [][NextHistory]_vars

InitToolSpec ==
    /\ InitRouter
    /\ config = ConfigDefault
    /\ env = FreeEnv
    /\ InitAgent
    /\ InitTools
    /\ InitLater

SpecTools == InitToolSpec /\ [][NextTools]_vars

\* the components as constructed, with nothing else running
InitQuiet ==
    /\ InitRouter
    /\ config = ConfigDefault
    /\ env = FreeEnv
    /\ InitAgent
    /\ InitToolsDefault
    /\ InitLater

SpecSplit == InitQuiet /\ [][NextSplit]_vars

\* the RAG pipeline under each of its configurations
InitRagSpec ==
    /\ InitRouter
    /\ config = ConfigDefault
    /\ env = FreeEnv
    /\ InitAgent
    /\ InitToolsDefault
    /\ InitSplit
    /\ InitRag
    /\ InitFiles
    /\ InitManager

SpecRag == InitRagSpec /\ [][NextRag]_vars

SpecFiles == InitQuiet /\ [][NextFiles]_vars

\* the agent's requests, the passing of time and the agent manager
NextSweep ==
    \/ InitializeAgent
    \/ \E r \in ReqIds, sid \in Sessions : AcceptRequest(r, sid, "hi")
    \/ \E r \in ReqIds : RetrieveDone(r, "loaded", "ok")
    \/ \E r \in ReqIds : CompletionDone(r, "returns")
    \/ \E r \in ReqIds : FinishRequest(r)
    \/ Tick
    \/ InitializeManager
    \/ \E agent_id \in AgentIds : RegisterAgent(agent_id)
    \/ \E agent_id \in AgentIds : GetAgent(agent_id)
    \/ \E agent_id \in AgentIds : DeactivateAgent(agent_id)
    \/ \E agent_id \in AgentIds, initialized \in BOOLEAN : ReactivateAgent(agent_id, initialized)
    \/ CleanupInactiveAgents
    \/ FinishManagerOp

SpecSweep == InitQuiet /\ [][NextSweep]_vars

\* the manager is initialized at startup, time passes, the cleanup task
\* wakes when its sleep is over, and the manager's callers are served
SpecSweepFair ==
    /\ SpecSweep
    /\ WF_vars(Tick)
    /\ WF_vars(InitializeManager)
    /\ WF_vars(CleanupInactiveAgents)
    /\ WF_vars(FinishManagerOp)
    /\ \A agent_id \in AgentIds : WF_vars(DeactivateAgent(agent_id))

(***************************************************************************)
(* The failover scenario: the primary provider fails every health check,   *)
(* the fallback provider "anthropic" answers probes and completions.       *)
(***************************************************************************)
FailoverEnvs ==
    { [constrained |-> TRUE, healthy |-> H,
       completes |-> {ModelKey("anthropic", "claude")}] :
      H \in {{"anthropic"}, {"anthropic", "local"}} }

InitFailover ==
    /\ InitRouter
    /\ env \in FailoverEnvs
    /\ InitAgent
    /\ InitToolsDefault
    /\ InitLater

SpecFailover == InitFailover /\ [][Next]_vars

(***************************************************************************)
(* Properties of the router.                                               *)
(***************************************************************************)
Candidate(call) == call.models[call.i]

\* call c begins a completion attempt in this step
StartsAttempt(c) ==
    /\ calls'[c].pc = "attempting"
    /\ calls[c].pc # "attempting" \/ calls'[c].i # calls[c].i

\* C1 as claimed: once a candidate of provider p was considered while p's
\* cache entry was negative and younger than the TTL, the call makes no
\* completion attempt against any model of p and its result names none.
C1_NoAttemptAfterNegative ==
    \A c \in CallIds :
        /\ calls[c].pc = "attempting" =>
               KeyProvider(Candidate(calls[c])) \notin calls[c].skipped_neg
        /\ calls[c].pc = "done" /\ calls[c].response.success =>
               calls[c].response.provider \notin calls[c].skipped_neg

\* C1 amended: a completion attempt begins only against a model whose
\* provider's cache entry is positive at that moment: a positive entry
\* younger than the TTL, or the entry a positive probe of this call has
\* just stored.  A candidate considered while the entry is negative and
\* younger than the TTL is therefore skipped.
C1_AttemptOnlyWhenPositive ==
    [][\A c \in CallIds :
          StartsAttempt(c) =>
              LET p == KeyProvider(Candidate(calls'[c]))
                  probed == calls[c].pc = "probing" /\ calls'[c].i = calls[c].i
              IN  /\ p \in DOMAIN health_cache'
                  /\ health_cache'[p]
                  /\ ~probed => CacheFresh(p, health_cache', last_health_check', now)]_vars

\* C1 witness: a call skipped a provider on a cached negative answer and
\* returned the completion of a model of another provider.
C1_Witness ==
    \E c \in CallIds :
        /\ calls[c].pc = "done"
        /\ calls[c].response.success
        /\ calls[c].skipped_neg # {}
        /\ calls[c].response.provider \notin calls[c].skipped_neg

\* C2 as claimed: get_completion never raises to its caller.
C2_NeverRaises ==
    \A c \in CallIds :
        /\ calls[c].pc # "raised"
        /\ calls[c].pc = "done" => calls[c].response.success \in BOOLEAN

SeqRange(s) == {s[n] : n \in 1..Len(s)}

FirstIndex(s, x) == CHOOSE n \in 1..Len(s) : s[n] = x /\ \A m \in 1..(n - 1) : s[m] # x

\* the keys the routing configuration offers for provider p
OfferedBy(p) ==
    IF p \in DOMAIN config.providers
    THEN {ModelKey(p, m) : m \in SeqRange(config.providers[p])}
    ELSE {}

\* 0: named by the caller; 1: offered by the primary provider; 2: by a fallback
OrderGroup(pref, k) ==
    IF k \in SeqRange(pref) THEN 0
    ELSE IF KeyProvider(k) = config.primary THEN 1 ELSE 2

ModelIndex(k) == FirstIndex(config.providers[KeyProvider(k)], KeyModel(k))

ExpectedBefore(pref, a, b) ==
    \/ OrderGroup(pref, a) < OrderGroup(pref, b)
    \/ /\ OrderGroup(pref, a) = 0
       /\ OrderGroup(pref, b) = 0
       /\ FirstIndex(pref, a) < FirstIndex(pref, b)
    \/ /\ OrderGroup(pref, a) = 1
       /\ OrderGroup(pref, b) = 1
       /\ ModelIndex(a) < ModelIndex(b)
    \/ /\ OrderGroup(pref, a) = 2
       /\ OrderGroup(pref, b) = 2
       /\ \/ FirstIndex(config.fallbacks, KeyProvider(a))
               < FirstIndex(config.fallbacks, KeyProvider(b))
          \/ /\ KeyProvider(a) = KeyProvider(b)
             /\ ModelIndex(a) < ModelIndex(b)

\* C3: the try-order holds exactly the caller-preferred models, the primary
\* provider's models and the fallback providers' models, each once, ordered:
\* preferred models in the caller's order (first occurrence), then the
\* primary's models in configured order, then the fallbacks' models in the
\* order of the fallback list and, within one provider, of its model list.
\* The order is a function of configuration and hints alone.
C3_TryOrder ==
    \A c \in CallIds :
        calls[c].pc # "idle" =>
            LET m == calls[c].models
                pref == calls[c].preferred
            IN  /\ SeqRange(m) = SeqRange(pref) \cup OfferedBy(config.primary)
                                   \cup UNION {OfferedBy(f) : f \in SeqRange(config.fallbacks)}
                /\ \A a, b \in 1..Len(m) : a < b => ExpectedBefore(pref, m[a], m[b])

\* C3 witness: a call whose hints repeat a model and name a model the
\* primary provider also offers, so that duplicates had to be removed.
C3_Witness ==
    \E c \in CallIds :
        /\ calls[c].pc # "idle"
        /\ Len(calls[c].preferred) > Cardinality(SeqRange(calls[c].preferred))
        /\ SeqRange(calls[c].preferred) \cap OfferedBy(config.primary) # {}
        /\ OfferedBy(config.primary) \ SeqRange(calls[c].preferred) # {}

\* the candidates strictly between a and b were skipped: not configured, or
\* their provider answered negative from the cache
SkippedBetween(call, a, b, hc, lhc) ==
    \A j \in (a + 1)..(b - 1) :
        \/ ~InModelConfigs(call.models[j], model_configs)
        \/ /\ CacheFresh(KeyProvider(call.models[j]), hc, lhc, now)
           /\ ~hc[KeyProvider(call.models[j])]

\* C4: when an attempt ends, either it succeeded and the call returns that
\* candidate's completion at once, or it failed and the call goes on with
\* the next candidate of the try-order that is configured and not cached
\* unhealthy; the failed attempt's result is never what the call returns.
C4_AttemptsInOrder ==
    [][\A c \in CallIds :
          calls[c].pc = "attempting" /\ calls'[c] # calls[c] =>
              LET old == calls[c]
                  new == calls'[c]
                  k == Candidate(old)
              IN  \/ /\ new.last_ok = old.i
                     /\ new.pc = "done"
                     /\ new.i = old.i
                     /\ new.response.success
                     /\ new.response.model = KeyModel(k)
                     /\ new.response.provider = KeyProvider(k)
                  \/ /\ new.last_ok = 0
                     /\ new.i > old.i
                     /\ new.models = old.models
                     /\ ~new.response.success
                     /\ new.response.model # KeyModel(k)
                     /\ SkippedBetween(new, old.i, new.i, health_cache', last_health_check')
                     /\ new.pc = "done" => new.i = Len(new.models) + 1
                     /\ new.pc # "done" =>
                            /\ new.pc \in {"attempting", "probing", "raised"}
                            /\ new.i <= Len(new.models)
                            /\ InModelConfigs(Candidate(new), model_configs)]_vars

\* C4 witness: a call returned a completion after an earlier candidate of
\* the same call had failed.
C4_Witness ==
    \E c \in CallIds :
        /\ calls[c].pc = "done"
        /\ calls[c].response.success
        /\ calls[c].last_ok = calls[c].i
        /\ calls[c].last_fail[2] > 0
        /\ calls[c].i > calls[c].last_fail[2]

\* C5: a call that ran out of candidates returns the synthetic failure:
\* success false, model and provider "none", the apology as content, and an
\* error that carries the error of the last attempt that failed (None when
\* every candidate was skipped).  A call returns a failure in no other way.
C5_AllFailed ==
    \A c \in CallIds :
        LET call == calls[c]
            exhausted == call.pc # "idle" /\ call.i > Len(call.models)
        IN  /\ exhausted => call.pc = "done" /\ ~call.response.success
            /\ call.pc = "done" /\ ~call.response.success =>
                   /\ exhausted
                   /\ call.response.content = APOLOGY
                   /\ call.response.model = "none"
                   /\ call.response.provider = "none"
                   /\ call.response.error[2] =
                          IF call.last_fail[2] = 0 THEN <<None, None>>
                          ELSE <<call.last_fail[1], call.models[call.last_fail[2]]>>

\* C5 witness: a synthetic failure after an attempt that failed and was not
\* the first candidate.
C5_Witness ==
    \E c \in CallIds :
        /\ calls[c].pc = "done"
        /\ ~calls[c].response.success
        /\ calls[c].last_fail[2] > 1
        /\ calls[c].last_fail[1] = "raised"

\* call c looked up the health of its candidate's provider in this step
LooksUp(c) ==
    /\ calls'[c] # calls[c]
    /\ calls'[c].pc \in {"attempting", "probing", "raised"}
    /\ calls[c].pc = "idle" \/ calls'[c].i # calls[c].i

\* C6 as claimed, for a provider that has a configuration: the lookup
\* returns the cached boolean without a probe when the entry is younger
\* than 300 seconds, and otherwise runs a probe whose result is stored
\* under the timestamp of the lookup.
C6_CachedOrProbed ==
    [][\A c \in CallIds :
          /\ LooksUp(c) =>
                 IF CacheFresh(KeyProvider(Candidate(calls'[c])),
                               health_cache', last_health_check', now)
                 THEN calls'[c].pc = "attempting"
                 ELSE calls'[c].pc = "probing" /\ calls'[c].current_time = now
          /\ calls[c].pc = "probing" /\ calls'[c] # calls[c] =>
                 LET p == KeyProvider(Candidate(calls[c]))
                 IN  /\ p \in DOMAIN health_cache'
                     /\ last_health_check'[p] = calls[c].current_time
                     /\ health_cache'[p] =
                            (calls'[c].pc = "attempting" /\ calls'[c].i = calls[c].i)]_vars

\* the coroutines awaiting a health check of p that _is_provider_healthy began
ProbesInFlight(p) ==
    {c \in CallIds : calls[c].pc = "probing" /\ KeyProvider(Candidate(calls[c])) = p}
    \cup (IF status.pc = "probing" /\ ProviderOrder[status.n] = p THEN {"status"} ELSE {})

\* C7 as claimed: at most one health probe per provider is in flight.
C7_OneProbeInFlight ==
    \A p \in providers : Cardinality(ProbesInFlight(p)) <= 1

\* the first candidate that is configured and whose provider is healthy
FirstHealthy(call) ==
    CHOOSE j \in 1..Len(call.models) :
        /\ InModelConfigs(call.models[j], model_configs)
        /\ KeyProvider(call.models[j]) \in env.healthy
        /\ \A m \in 1..(j - 1) :
              ~(/\ InModelConfigs(call.models[m], model_configs)
                /\ KeyProvider(call.models[m]) \in env.healthy)

\* C8 as claimed, in the failover scenario: no attempt is made against a
\* model of the primary provider, and a call on the initialized router
\* returns success naming the first candidate of a healthy fallback provider.
C8_Failover ==
    [][\A c \in CallIds :
          /\ StartsAttempt(c) => KeyProvider(Candidate(calls'[c])) # config.primary
          /\ (/\ init_pc # 0
              /\ calls[c].pc \notin {"done", "raised"}
              /\ calls'[c].pc \in {"done", "raised"}) =>
                 /\ calls'[c].pc = "done"
                 /\ calls'[c].response.success
                 /\ calls'[c].response.model
                        = KeyModel(calls'[c].models[FirstHealthy(calls'[c])])
                 /\ calls'[c].response.provider
                        = KeyProvider(calls'[c].models[FirstHealthy(calls'[c])])]_vars

(***************************************************************************)
(* Properties of the session history.                                      *)
(***************************************************************************)
\* C9: a session's history holds at most 10 turns, and they are the turns
\* appended to the session last, in the order they were appended.
C9_HistoryBounded ==
    \A sid \in DOMAIN session_context :
        LET history == session_context[sid].history
            all == appended[sid]
        IN  /\ Len(history) <= MAX_HISTORY
            /\ Len(history) = IF Len(all) < MAX_HISTORY THEN Len(all) ELSE MAX_HISTORY
            /\ \A n \in 1..Len(history) : history[n] = all[Len(all) - Len(history) + n]

\* C9 witness: more than 10 turns were appended to one session, so the
\* oldest was evicted.
C9_Witness ==
    \E sid \in DOMAIN session_context :
        /\ Len(appended[sid]) > MAX_HISTORY
        /\ Len(session_context[sid].history) = MAX_HISTORY
        /\ session_context[sid].history[1] = appended[sid][2]

InPipeline(r) == requests[r].pc \in {"retrieving", "completing"}

\* C10 as claimed: requests on one session are serialized, so no two of
\* them are inside the pipeline at the same time.
C10_Serialized ==
    \A r1, r2 \in ReqIds :
        r1 # r2 /\ InPipeline(r1) /\ InPipeline(r2) =>
            requests[r1].session_id # requests[r2].session_id

\* the pipeline of process_request (lines 89-146)
StepOrder ==
    <<"session", "preprocess", "retrieve", "prompt", "completion", "tools",
      "postprocess", "append", "metrics">>

IsPrefix(s, t) == Len(s) <= Len(t) /\ \A n \in 1..Len(s) : s[n] = t[n]

\* C11: an exception raised in a step of the pipeline is caught: the request
\* returns the error response, which carries the error and names the agent
\* and the session; a request raises to its caller only before the pipeline
\* (the agent is not initialized).
C11_ExceptionsCaught ==
    \A r \in ReqIds :
        LET q == requests[r]
        IN  /\ q.raised_in # None =>
                   /\ q.pc = "returned"
                   /\ q.error # None
                   /\ q.response.error = q.error
                   /\ q.response.agent_name = AgentName
                   /\ q.response.session_id = q.session_id
            /\ q.pc = "raised" => q.raised_in = None /\ q.steps = <<>>

\* C11 witness: requests ended in the error response after an exception in
\* preprocessing and after an exception in the routed completion.
C11_Witness ==
    \E r1, r2 \in ReqIds :
        /\ requests[r1].pc = "returned"
        /\ requests[r1].raised_in = "preprocess"
        /\ requests[r2].pc = "returned"
        /\ requests[r2].raised_in = "completion"
        /\ requests[r2].completion = "raises"

\* C12 as claimed: the steps a request has started are a prefix of the
\* fixed order, and a request whose routed completion returned a response
\* goes through all nine steps, the turn appended after postprocessing and
\* before the metrics.
C12_StepsInOrder ==
    \A r \in ReqIds :
        /\ IsPrefix(requests[r].steps, StepOrder)
        /\ requests[r].pc = "returned" /\ requests[r].completion = "returns" =>
               requests[r].steps = StepOrder

(***************************************************************************)
(* Properties of the orchestrator.                                         *)
(***************************************************************************)
\* the pieces that are well-formed fragments [TOOL:<name>(<parameters>)]
WellFormedPieces == {"kv", "json"}

\* the call a well-formed fragment asks for
ClaimedCall(piece) ==
    [tool_name |-> "calculator",
     parameters |-> [k \in {"expression"} |-> [type |-> "str", value |-> "2+2"]]]

RECURSIVE ClaimedCalls(_)
ClaimedCalls(pieces) ==
    IF pieces = <<>> THEN <<>>
    ELSE (IF Head(pieces) \in WellFormedPieces THEN <<ClaimedCall(Head(pieces))>> ELSE <<>>)
         \o ClaimedCalls(Tail(pieces))

Authorized(tool_name, allowed, restricted) ==
    /\ tool_name \in allowed
    /\ tool_name \notin restricted
    /\ tool_name \in enabled_tools

\* the calls of a response text that pass the three authorization checks
AuthorizedCalls(op) ==
    SelectSeq(ClaimedCalls(op.pieces),
              LAMBDA call : Authorized(call.tool_name, op.allowed, op.restricted))

\* C13 as claimed: a response whose authorized calls would push the
\* session's count above the ceiling is rejected with the limit-exceeded
\* result, and none of its calls has a result.
C13_BatchRejected ==
    tool_op.kind = "response" /\ tool_op.pc = "returned" =>
        LET batch == AuthorizedCalls(tool_op)
        IN  batch # <<>> /\ TotalCalls(session_tool_counts, tool_op.key) + Len(batch)
                               > MaxCallsPerSession(tool_config) =>
                /\ tool_op.error = LimitExceeded
                /\ tool_op.results = NoResults

\* C16: the calls _filter_tool_calls lets through are exactly the calls
\* whose tool is in the agent's allow-list, not in its deny-list and in the
\* enabled set, in their order; filtering yields no result for any call.
C16_OnlyAuthorized ==
    tool_op.kind = "filter" =>
        /\ tool_op.filtered =
               SelectSeq(tool_op.tool_calls,
                         LAMBDA call : Authorized(call.tool_name, tool_op.allowed,
                                                  tool_op.restricted))
        /\ tool_op.results = NoResults

\* C16 witness: of two calls the filter kept one and dropped one whose tool
\* is allowed and enabled but on the agent's deny-list.
C16_Witness ==
    /\ tool_op.kind = "filter"
    /\ Len(tool_op.tool_calls) = 2
    /\ Len(tool_op.filtered) = 1
    /\ \E n \in 1..2 :
          /\ tool_op.tool_calls[n].tool_name \in tool_op.allowed \cap tool_op.restricted
          /\ tool_op.tool_calls[n].tool_name \in enabled_tools

\* C17 as claimed: a response accepted within the ceiling returns one result
\* for each of its authorized calls.
C17_OneResultPerCall ==
    tool_op.kind = "response" /\ tool_op.pc = "returned" /\ tool_op.error = None =>
        Cardinality(DOMAIN tool_op.results) = Len(AuthorizedCalls(tool_op))

\* C18: _execute_tool_call on a registered tool whose validate_parameters
\* rejects the parameters returns a failure result and the tool's execute
\* is not invoked for that call.
C18_InvalidNotExecuted ==
    tool_op.kind = "execute" =>
        LET tool_call == tool_op.tool_calls[1]
        IN  /\ tool_call.tool_name \in tools
            /\ ~ValidateParameters(tool_call.tool_name, tool_call.parameters)
            => /\ tool_op.pc = "returned"
               /\ tool_call.call_id \in DOMAIN tool_op.results
               /\ ~tool_op.results[tool_call.call_id].success
               /\ \A n \in 1..Len(executed) : executed[n] # tool_call

\* C18 witness: a call of the registered calculator with a non-string
\* expression was refused.
C18_Witness ==
    /\ tool_op.kind = "execute"
    /\ tool_op.pc = "returned"
    /\ tool_op.tool_calls[1].tool_name = "calculator"
    /\ "calculator" \in tools
    /\ "expression" \in DOMAIN tool_op.tool_calls[1].parameters
    /\ ~ValidateParameters("calculator", tool_op.tool_calls[1].parameters)

\* C19 as claimed: the text "[TOOL:calculator(expression=2+2)]" yields
\* exactly one ToolCall, named calculator, with the parameters expression=2+2.
C19_ExtractsOneCall ==
    tool_op.kind = "extract" /\ tool_op.pieces = <<"kv">> =>
        /\ Len(tool_op.tool_calls) = 1
        /\ tool_op.tool_calls[1].tool_name = "calculator"
        /\ tool_op.tool_calls[1].parameters = ClaimedCall("kv").parameters

\* C20 as claimed: extraction returns for every text, and it returns one
\* call for each well-formed fragment of the text, whatever malformed
\* fragments stand beside them.
C20_ExtractionTotal ==
    tool_op.kind = "extract" =>
        /\ tool_op.pc = "returned"
        /\ Len(tool_op.tool_calls) = Len(ClaimedCalls(tool_op.pieces))

\* No text makes _extract_tool_calls return a call: the code of
\* process_response after line 589 is never reached.
NoToolCallExtracted ==
    tool_op.kind \in {"extract", "response"} => tool_op.tool_calls = <<>>

(***************************************************************************)
(* Properties of _split_text.                                              *)
(***************************************************************************)
\* C21: a text shorter than the chunk size is returned as one chunk, equal
\* to the text.
C21_ShortTextOneChunk ==
    split.pc # "idle" /\ Len(split.text) < split.chunk_size =>
        /\ split.returned
        /\ split.chunks = <<split.text>>

\* C21 witness: the empty text and a text one character short of the chunk
\* size were split.
C21_Witness ==
    /\ split.pc = "returned"
    /\ Len(split.text) < split.chunk_size
    /\ \/ split.text = <<>>
       \/ Len(split.text) = split.chunk_size - 1

\* the chunks are cut from the text where spans says, the first at 0, the
\* last up to the end, and each begins no later than the one before ended
Reconstructs(text, chunks, spans) ==
    /\ Len(chunks) = Len(spans)
    /\ Len(chunks) >= 1
    /\ spans[1][1] = 0
    /\ spans[Len(spans)][2] = Len(text)
    /\ \A n \in 1..Len(chunks) : chunks[n] = Slice(text, spans[n][1], spans[n][2])
    /\ \A n \in 1..(Len(chunks) - 1) :
           /\ spans[n + 1][1] <= spans[n][2]
           /\ spans[n + 1][2] > spans[n][2]

\* C22 as claimed: for a text longer than the chunk size _split_text
\* returns chunks that, with their overlaps removed, give the text back
\* with no gap.
C22_ChunksReconstruct ==
    split.pc # "idle" /\ Len(split.text) > split.chunk_size =>
        /\ split.returned
        /\ Reconstructs(split.text, split.chunks, split.spans)

\* when _split_text returns for a long text, its chunks reconstruct it
SplitReturnedReconstructs ==
    split.pc = "returned" /\ Len(split.text) > split.chunk_size =>
        Reconstructs(split.text, split.chunks, split.spans)

(***************************************************************************)
(* Properties of the RAG pipeline.                                         *)
(***************************************************************************)
BelowThreshold(query, chunk) ==
    ~ScoreAtLeast(CosineSimilarity(EmbeddingOf(query), chunk.embedding),
                  rag_config.similarity_threshold)

\* C23: the context retrieve_context returns is made of its parts, and
\* every part is a chunk whose similarity to the query is at or above the
\* threshold.
C23_OnlyAboveThreshold ==
    rag_get.pc = "returned" =>
        /\ rag_get.result = JoinParts(rag_get.parts)
        /\ \A n \in 1..Len(rag_get.parts) : ~BelowThreshold(rag_get.query, rag_get.parts[n])

\* C23 witness: a context was returned while the store held a chunk with an
\* embedding that scores below the threshold for the query.
C23_Witness ==
    /\ rag_get.pc = "returned"
    /\ rag_get.parts # <<>>
    /\ \E n \in 1..Len(vector_store) :
          /\ vector_store[n].embedding # <<>>
          /\ BelowThreshold(rag_get.query, vector_store[n])

\* C24 as claimed: the context retrieve_context returns, its source headers
\* and separators included, is not longer than max_context_length.
C24_ContextWithinMax ==
    rag_get.pc = "returned" => Len(rag_get.result) <= rag_config.max_context_length

\* the contents of the chunks of a returned context together are not longer
\* than max_context_length
ContentWithinMax ==
    rag_get.pc = "returned" =>
        Len(rag_get.result) - 6 * Len(rag_get.parts)
          - (IF rag_get.parts = <<>> THEN 0 ELSE 4 * (Len(rag_get.parts) - 1))
            <= rag_config.max_context_length

\* C25 as claimed: a context retrieve_context returns from the cache was
\* made from the corpus present at the call, not from an older one.
C25_NoStaleContext ==
    rag_get.pc = "returned" /\ rag_get.from_cache =>
        rag_get.cached_corpus = rag_get.corpus_at_call

\* a context returned from the cache is the context the corpus present at
\* the call gives
CachedContextIsFresh ==
    rag_get.pc = "returned" /\ rag_get.from_cache =>
        rag_get.result = BuildContext(vector_store, EmbeddingOf(rag_get.query),
                                      rag_config).context

\* retrieve_context returns a text whatever happens inside it
RetrieveNeverRaises ==
    rag_get.pc \in {"idle", "embedding", "returned"}

(***************************************************************************)
(* Properties of the retrieval step of process_request.                    *)
(***************************************************************************)
\* C26: a retrieval that failed inside retrieve_context gave the request
\* the empty context and no exception: the request went on to build its
\* prompt and to call the routed completion.
C26_RetrievalFailureDegrades ==
    \A r \in ReqIds :
        requests[r].pipeline # None /\ requests[r].rag_failed =>
            /\ requests[r].rag_context = <<>>
            /\ requests[r].raised_in # "retrieve"
            /\ requests[r].error # "RetrievalError"
            /\ requests[r].prompt.built
            /\ requests[r].routed
            /\ requests[r].steps =
                   <<"session", "preprocess", "retrieve", "prompt", "completion">>

\* C26 witness: one request met a pipeline with no provider, another a
\* loaded pipeline whose embedding failed, and both were routed.
C26_Witness ==
    \E r1, r2 \in ReqIds :
        /\ requests[r1].rag_failed /\ requests[r1].pipeline = "new"
        /\ requests[r1].routed
        /\ requests[r2].rag_failed /\ requests[r2].pipeline = "loaded"
        /\ requests[r2].routed

\* C27: a query against the empty corpus gets the empty context, the prompt
\* built from it has no context section, and the router is called with it.
C27_EmptyCorpusNoSection ==
    \A r \in ReqIds :
        requests[r].pipeline = "empty" /\ ~requests[r].rag_failed =>
            /\ requests[r].rag_context = <<>>
            /\ requests[r].prompt.built
            /\ requests[r].prompt.user_input = InputText(requests[r].input)
            /\ requests[r].prompt.rag_section = <<>>
            /\ requests[r].routed

\* C27 witness: a request queried the empty corpus and is in the routed
\* completion, while another got a context section from the loaded corpus.
C27_Witness ==
    \E r1, r2 \in ReqIds :
        /\ requests[r1].pipeline = "empty" /\ ~requests[r1].rag_failed
        /\ requests[r1].pc = "completing"
        /\ requests[r2].pipeline = "loaded" /\ requests[r2].prompt.rag_section # <<>>

(***************************************************************************)
(* Properties of get_provider_status.                                      *)
(***************************************************************************)
\* C28 as claimed: no step of get_provider_status starts a health probe or
\* changes health_cache, last_health_check or model_configs.
C28_StatusReadOnly ==
    [][status' # status =>
          /\ status'.pc # "probing"
          /\ UNCHANGED <<health_cache, last_health_check, model_configs>>]_vars

\* get_provider_status never changes model_configs, and it changes the
\* health entries of the provider it probed only
StatusWritesProbedOnly ==
    [][status' # status =>
          /\ UNCHANGED model_configs
          /\ \A p \in DOMAIN health_cache' :
                 \/ status.pc = "probing" /\ p = ProviderOrder[status.n]
                 \/ /\ p \in DOMAIN health_cache
                    /\ health_cache'[p] = health_cache[p]
                    /\ last_health_check'[p] = last_health_check[p]]_vars

(***************************************************************************)
(* Properties of the file tools.                                           *)
(***************************************************************************)
\* the resolved path lies inside an allow-listed directory: the directory's
\* components are the first components of the path
InsideAllowedDirectory(path) ==
    \E allowed_dir \in AllowedDirectories :
        /\ StartsWith(Resolve(path), Resolve(allowed_dir))
        /\ Len(Resolve(path)) > Len(Resolve(allowed_dir))

\* C29 as claimed: the file reader and the file writer touch a file only
\* when its resolved path lies inside an allow-listed directory and has an
\* allow-listed extension; for every other path they fail and touch no file.
C29_Sandboxed ==
    file_op.pc = "returned" =>
        \/ /\ InsideAllowedDirectory(file_op.path)
           /\ ExtensionAllowed(ResolvedString(file_op.path))
        \/ /\ ~file_op.success
           /\ file_op.touched = <<>>

\* a file the tools touch has an allow-listed extension, is not under /etc
\* when read, and was named without '..'
TouchedHasAllowedExtension ==
    file_op.pc = "returned" /\ file_op.touched # <<>> =>
        /\ file_op.success
        /\ ExtensionAllowed(ResolvedString(file_op.path))
        /\ ~Contains(PathString(file_op.path), <<".", ".">>)
        /\ file_op.tool = "file_reader" => file_op.touched[1] # <<"e", "t", "c">>

(***************************************************************************)
(* Properties of the idle-timeout sweep.                                   *)
(***************************************************************************)
\* the session has received no request for longer than the idle timeout
IdleTooLong(sid) ==
    /\ sid \in DOMAIN session_context
    /\ sid \in DOMAIN last_request
    /\ now - last_request[sid] > TimeoutThreshold

\* C30 as claimed: a session that has received no request for longer than
\* the idle timeout is eventually removed, whatever the other sessions of
\* its agent receive.
C30_IdleSessionRemoved ==
    \A sid \in Sessions : IdleTooLong(sid) ~> sid \notin DOMAIN session_context

\* the manager never holds an instance: register_agent fails for every
\* agent, and nothing else stores one
NoAgentRegistered ==
    /\ agents = NoAgents
    /\ manager_op.kind \in {"register", "deactivate", "reactivate"} =>
           manager_op.result = "False"
    /\ manager_op.kind = "get" => manager_op.result = None

\* the sweep ran while a session had been idle for longer than the timeout
SweepRanOverIdleSession ==
    /\ cleanup_wake > CLEANUP_INTERVAL
    /\ \E sid \in Sessions : IdleTooLong(sid)

(***************************************************************************)
(* Termination and overlap of _split_text.                                 *)
(***************************************************************************)
\* C32 as claimed: with 0 <= chunk_overlap < chunk_size _split_text returns
\* for every text, and the start position of each chunk is greater than the
\* start position of the chunk before it.
C32_SplitTerminates ==
    split.pc # "idle" /\ split.chunk_overlap < split.chunk_size =>
        /\ split.returned
        /\ \A n \in 1..(Len(split.spans) - 1) : split.spans[n + 1][1] > split.spans[n][1]

\* when _split_text returns, the start positions of its chunks increase
SplitReturnedStartsIncrease ==
    split.pc = "returned" =>
        \A n \in 1..(Len(split.spans) - 1) : split.spans[n + 1][1] > split.spans[n][1]

\* the number of characters chunk n and chunk n + 1 have in common
Overlap(spans, n) == spans[n][2] - spans[n + 1][1]

\* C33 as claimed: the consecutive chunks _split_text returns for a text
\* longer than the chunk size overlap by exactly chunk_overlap characters.
C33_ExactOverlap ==
    split.pc = "returned" /\ Len(split.text) > split.chunk_size =>
        \A n \in 1..(Len(split.spans) - 1) :
            Overlap(split.spans, n) = split.chunk_overlap

\* consecutive chunks overlap by chunk_overlap characters when the earlier
\* one ends beyond position chunk_overlap of the text, and by none otherwise
OverlapUnlessEarlyEnd ==
    split.pc = "returned" =>
        \A n \in 1..(Len(split.spans) - 1) :
            Overlap(split.spans, n) =
                IF split.spans[n][2] > split.chunk_overlap THEN split.chunk_overlap ELSE 0

(***************************************************************************)
(* The greedy fill of retrieve_context.                                    *)
(***************************************************************************)
\* the chunks of the searched store at or above the threshold for the
\* operation's query, the best first
RankedAboveThreshold(op) ==
    SelectSeq(SortByScore(SelectSeq(op.searched, LAMBDA doc : doc.embedding # <<>>),
                          EmbeddingOf(op.query)),
              LAMBDA doc : ~BelowThreshold(op.query, doc))

RECURSIVE ContentLength(_)
ContentLength(docs) ==
    IF docs = <<>> THEN 0 ELSE Len(Head(docs).content) + ContentLength(Tail(docs))

\* the number of ranked chunks retrieve_context looks at: max_retrieved_docs
\* of them at most
Considered(op) ==
    IF Len(RankedAboveThreshold(op)) < rag_config.max_retrieved_docs
    THEN Len(RankedAboveThreshold(op))
    ELSE rag_config.max_retrieved_docs

\* C34: the chunks of a context retrieve_context made are the first of the
\* ranked chunks at or above the threshold, their contents fit the maximum
\* context length, and when a considered chunk was left out, the first one
\* left out would have exceeded it.
C34_GreedyFill ==
    rag_get.pc = "returned" /\ ~rag_get.from_cache =>
        /\ Len(rag_get.parts) <= Considered(rag_get)
        /\ rag_get.parts = SubSeq(RankedAboveThreshold(rag_get), 1, Len(rag_get.parts))
        /\ ContentLength(rag_get.parts) <= rag_config.max_context_length
        /\ Len(rag_get.parts) < Considered(rag_get) =>
               ContentLength(rag_get.parts)
                 + Len(RankedAboveThreshold(rag_get)[Len(rag_get.parts) + 1].content)
                   > rag_config.max_context_length

\* C34 witness: a context was made that stops at a chunk which does not
\* fit, while a chunk ranked below that one would have fitted.
C34_Witness ==
    /\ rag_get.pc = "returned" /\ ~rag_get.from_cache
    /\ Len(rag_get.parts) < Considered(rag_get)
    /\ \E n \in (Len(rag_get.parts) + 2)..Considered(rag_get) :
           ContentLength(rag_get.parts) + Len(RankedAboveThreshold(rag_get)[n].content)
               <= rag_config.max_context_length

(***************************************************************************)
(* The session counters after a batch.                                     *)
(***************************************************************************)
\* counts.get(tool_name, 0)
CountOf(counts, tool_name) ==
    IF tool_name \in DOMAIN counts THEN counts[tool_name] ELSE 0

\* how many calls of the batch are calls of tool_name
CallsOf(batch, tool_name) ==
    Len(SelectSeq(batch, LAMBDA call : call.tool_name = tool_name))

\* C35 as claimed: when process_response has processed an accepted batch
\* of k authorized calls, the session's total is k more than before it, and
\* each tool's counter is greater by the number of the batch's calls of
\* that tool.
C35_CountersAdvance ==
    tool_op.kind = "response" /\ tool_op.pc = "returned" /\ tool_op.error = None =>
        LET batch == AuthorizedCalls(tool_op)
            after == WithSession(session_tool_counts, tool_op.key)[tool_op.key]
        IN  /\ TotalCalls(session_tool_counts, tool_op.key)
                   = SumCounts(tool_op.before, DOMAIN tool_op.before) + Len(batch)
            /\ \A tool_name \in CallNames :
                   CountOf(after, tool_name)
                       = CountOf(tool_op.before, tool_name) + CallsOf(batch, tool_name)

\* no counter of any session is ever created with a count or changed
CountersNeverChange ==
    \A key \in DOMAIN session_tool_counts : session_tool_counts[key] = NoCounts

(***************************************************************************)
(* How a request ends: the turn, the response and the tools used.          *)
(***************************************************************************)
\* C31 as claimed: a request whose routed completion returned a response
\* has the model recorded as the session's last model, returns a response
\* with no error that carries the content, and has appended one turn.
C31_CompletionRecorded ==
    \A r \in ReqIds :
        requests[r].pc = "returned" /\ requests[r].completion = "returns" =>
            /\ requests[r].response.error = None
            /\ requests[r].response.response # None
            /\ session_context[requests[r].session_id].last_model # None
            /\ Len(session_context[requests[r].session_id].history)
                   = Len(requests[r].history_at_call) + 1

\* the names of the tools executed
ExecutedNames == [n \in 1..Len(executed) |-> executed[n].tool_name]

\* C36 as claimed: the response of a request whose completion returned
\* carries the list of the tools executed for it, the empty list when none
\* was.
C36_ToolsUsedReported ==
    \A r \in ReqIds :
        requests[r].pc = "returned" /\ requests[r].completion = "returns" =>
            /\ requests[r].response.tools_used # None
            /\ requests[r].response.tools_used = ExecutedNames

\* no request starts tool processing, appends a turn or emits a metric
NoRequestPastCompletion ==
    \A r \in ReqIds :
        /\ \A n \in 1..Len(requests[r].steps) :
               requests[r].steps[n] \notin {"tools", "postprocess", "append", "metrics"}
        /\ requests[r].response.tools_used = None

\* C37: a request that ended in the error response has appended no turn:
\* the session's history is what it was when the request was accepted, and
\* the request has emitted no metric.
C37_ErrorAppendsNothing ==
    \A r \in ReqIds :
        requests[r].pc = "returned" /\ requests[r].response.error # None =>
            /\ session_context[requests[r].session_id].history = requests[r].history_at_call
            /\ \A n \in 1..Len(requests[r].steps) :
                   requests[r].steps[n] \notin {"append", "metrics"}

\* C37 witness: requests ended in the error response after an exception in
\* preprocessing and after the routed completion had returned.
C37_Witness ==
    \E r1, r2 \in ReqIds :
        /\ requests[r1].pc = "returned" /\ requests[r1].response.error # None
        /\ requests[r1].raised_in = "preprocess"
        /\ requests[r2].pc = "returned" /\ requests[r2].response.error # None
        /\ requests[r2].completion = "returns"
        /\ requests[r1].session_id = requests[r2].session_id

(***************************************************************************)
(* The health-check timestamps under concurrent calls.                     *)
(***************************************************************************)
\* C38 as claimed: no step takes a provider's stored health-check time
\* back.
C38_TimestampsNeverDecrease ==
    [][\A p \in DOMAIN last_health_check :
           /\ p \in DOMAIN last_health_check'
           /\ last_health_check'[p] >= last_health_check[p]]_vars

\* a stored health-check time is never later than the clock, and a provider
\* has a cached value exactly when it has a stored time
TimestampsNotInFuture ==
    /\ DOMAIN health_cache = DOMAIN last_health_check
    /\ \A p \in DOMAIN last_health_check : last_health_check[p] <= now

====
